---- MODULE Spec2Model ----
(***************************************************************************)
(* Model of the anonymization pipeline of js-db-anonymizer: main() of      *)
(* main.js driving AnonymizationService (second generation, the class      *)
(* that uses DockerManager) through init, setup, processRules,             *)
(* createAnonymizedDump and cleanup.  The container runtime, the database  *)
(* and the file system are the environment: each call into them either     *)
(* succeeds or fails, chosen nondeterministically.                         *)
(***************************************************************************)
EXTENDS Integers, Sequences, FiniteSets, TLC

(***************************************************************************)
(* Bounds of the model.                                                    *)
(***************************************************************************)
MaxTables == 2
MaxCols == 2
MaxEnvRetries == 1
MaxCleanupCalls == 2
MaxLen == 2
MaxPasses == 2
MaxLines == 3
MaxClock == 3
MaxExports == 2

(***************************************************************************)
(* Program constants.                                                      *)
(***************************************************************************)
DefaultMaxRetries == 5

NoErr == "none"

ContainerName == "dump_postgresql"
UndefinedName == "undefined"
ContainerNames == {ContainerName, UndefinedName}

(* Table names a rule file may use, and names the imported schema may hold.*)
RuleTableNames == <<"Users", "orders", "ghost">>
SchemaTableNames == {"users", "orders"}

(* The CREATE TABLE statements of the dump, in the order of the file.       *)
DumpStatements == <<"users", "orders">>

(* Nothing imported yet.                                                   *)
(* No pooled client taken.                                                 *)
NoClient == [acquired |-> 0, released |-> 0]

NoImport == [ran |-> FALSE, failed |-> {}, created |-> {}, phases |-> <<>>]

lower(n) == IF n = "Users" THEN "users" ELSE n

(* Columns and mask expressions of the sample rule file.                   *)
ColumnNames == <<"first_name", "last_name", "email">>

MaskFor(c) ==
  CASE c = "first_name" -> "anon.fake_first_name()"
    [] c = "last_name" -> "anon.fake_last_name()"
    [] OTHER -> "anon.partial_email(email)"

Min(a, b) == IF a < b THEN a ELSE b

MasksOfLen(k) ==
  [x \in 1..k |-> [column |-> ColumnNames[x], mask |-> MaskFor(ColumnNames[x])]]

(* One entry of the rules object: rules[tableName] = { masks: {...} } with *)
(* the first MaxCols columns, or an entry without a masks member.          *)
TableRules ==
  {[table |-> RuleTableNames[t], hasMasks |-> (k > 0), masks |-> MasksOfLen(k)] :
     t \in 1..Len(RuleTableNames),
     k \in {0, Min(Len(ColumnNames), MaxCols)}}

RECURSIVE SeqsUpTo(_, _)
SeqsUpTo(S, n) ==
  IF n = 0 THEN {<<>>}
  ELSE LET shorter == SeqsUpTo(S, n - 1)
       IN shorter \cup {Append(s, x) : s \in {q \in shorter : Len(q) = n - 1}, x \in S}

DistinctTables(rs) ==
  \A a, b \in 1..Len(rs) : a # b => lower(rs[a].table) # lower(rs[b].table)

(* The rule sets loadRules can return: keys of one object, in insertion    *)
(* order, no two of them naming the same table.                            *)
RuleSets ==
  {rs \in SeqsUpTo(TableRules, MaxTables) :
     DistinctTables(rs)}

VARIABLES
  pc,              \* position of main() / the method it is awaiting
  exitCode,        \* status given to process.exit, -1 while running
  anonService,     \* main's anonService is non-null
  rules,           \* the object returned by loadRules
  err,             \* the error in flight (thrown, not yet handled)
  raised,          \* the error the failing stage raised first
  failedStage,     \* the stage that raised it
  containers,      \* container runtime: name -> [state, owner]
  pool,            \* this.pool: "null", "open", "ended"
  maxRetries,      \* this.maxRetries: [n, isString]
  attempt,         \* loop variable of waitForPostgres
  polls,           \* trial connections waitForPostgres has made
  delays,          \* waits of retryInterval waitForPostgres has made
  acceptedAt,      \* the trial connection that was accepted, 0 for none
  schema,          \* tables of the target database (public schema)
  extInstalled,    \* the anon extension is installed
  maskedRoles,     \* roles labelled MASKED
  labels,          \* committed security labels: [table, column, mask]
  txLabels,        \* labels as seen inside the open transaction
  inTx,            \* the pooled client has an open transaction
  exactTableName,  \* this.exactTableName
  queriedTable,    \* table named by the last statement of the current rule
  i,               \* index into Object.keys(rules), 0 outside the loop
  j,               \* index into Object.entries(tableRules.masks), 0 outside
  bound,           \* columns whose binding processRules committed
  committed,       \* processRules returned after COMMIT
  exportStarted,   \* createAnonymizedDump was entered
  outFile,         \* the final dump file exists in the dumps directory
  leaked,          \* bound columns exported with their original values
  dumpExt,         \* the final dump has statements that need the anon extension
  processedFile,   \* the file <dump>.processed exists
  importLog,       \* what the psql run of importDump did
  txLog,           \* the statements processRules has issued, in order
  client,          \* pooled clients processRules acquired and released
  cleanupRet,      \* where the running cleanup() returns to
  cleanupErr,      \* error raised inside the running cleanup()
  cleanupLogged,   \* error the running cleanup() caught and logged
  cleanupCalls,    \* invocations of cleanup()
  cleanupDone,     \* invocations of cleanup() that returned
  hi,              \* loop variable i of waitForContainerHealth
  inspects,        \* container.inspect() calls waitForContainerHealth made
  lastObs,         \* State of the last inspect, or its failure
  exitSeenAt,      \* the inspect that first showed a non-zero ExitCode
  hDelays,         \* timed delays waitForContainerHealth has waited
  stagesDone,      \* the stages that have completed, in order of completion
  files,           \* dump files on disk: path -> content, for the Dumper alone
  passes,          \* calls of preprocessDump made on those files
  lastCall,        \* input path, input content and outcome of the last call
  vLines,          \* the lines of the file validateDump reads
  vPos,            \* lines validateDump has read
  validation,      \* the validation object of validateDump
  now,             \* the clock, in half seconds
  exported,        \* the createAnonymizedDump calls made: name, start, path
  dumpsDir,        \* final dumps in the dumps directory: path and writing call
  pcB,             \* position of a second, concurrent run in its provisioning
  errB,            \* the error that ended the provisioning of the second run
  calls,           \* processRules calls in progress on the one service object
  callLog          \* the statements those calls have sent, in order

vars ==
  <<pc, exitCode, anonService, rules, err, raised, failedStage, containers,
    pool, maxRetries, attempt, polls, delays, acceptedAt, schema, extInstalled, maskedRoles, labels,
    txLabels, inTx, exactTableName, queriedTable, i, j, bound, committed,
    exportStarted,
    outFile, leaked, dumpExt, processedFile, importLog, txLog, client, cleanupRet, cleanupErr, cleanupLogged, cleanupCalls,
    cleanupDone, hi, inspects, lastObs, exitSeenAt, hDelays, stagesDone,
    files, passes, lastCall, vLines, vPos, validation, now, exported, dumpsDir, pcB, errB, calls, callLog>>

mainVars == <<exitCode, anonService, rules>>
dockerVars == <<containers>>
dbVars == <<schema, extInstalled, maskedRoles, labels, txLabels, inTx>>
waitVars == <<maxRetries, attempt, polls, delays, acceptedAt>>
ruleVars == <<exactTableName, queriedTable, i, j, bound, committed, txLog, client>>
exportVars == <<exportStarted, outFile, leaked, dumpExt>>
fileVars == <<processedFile, importLog>>
cleanupVars == <<cleanupRet, cleanupErr, cleanupLogged, cleanupCalls, cleanupDone>>
errVars == <<err, raised, failedStage>>
healthVars == <<hi, inspects, lastObs, exitSeenAt, hDelays>>
stageVars == <<stagesDone>>
validateVars == <<vLines, vPos, validation>>
stampVars == <<now, exported, dumpsDir>>
dumperVars == <<files, passes, lastCall, validateVars, stampVars>>
callVars == <<calls, callLog>>
runBVars == <<pcB, errB, callVars>>

NoFile == [exists |-> FALSE, content |-> <<>>]
File(c) == [exists |-> TRUE, content |-> c]
NoCall == [path |-> "none", before |-> NoFile, ok |-> FALSE]

(* null, the initial pgVersion.                                            *)
Null == -1

(* const validation = { hasTableDefinitions: false, hasData: false,        *)
(* pgVersion: null, isValid: false }                                       *)
NoValidation ==
  [hasTableDefinitions |-> FALSE, hasData |-> FALSE, pgVersion |-> Null, isValid |-> FALSE]

(* No validateDump call under way, no export made by a caller of the       *)
(* service other than main.                                                *)
ValidateRest ==
  /\ vLines = <<>>
  /\ vPos = 0
  /\ validation = NoValidation
  /\ now = 0
  /\ exported = <<>>
  /\ dumpsDir = {}

DumpPath == "dump.sql"
Paths == {DumpPath, "dump.sql.processed", "dump.sql.processed.processed"}

(* No Dumper call under way, no second run.                                *)
DumperRest ==
  /\ files = [f \in Paths |-> NoFile]
  /\ passes = 0
  /\ lastCall = NoCall
  /\ ValidateRest

RunBRest == pcB = "idle" /\ errB = NoErr /\ calls = <<>> /\ callLog = <<>>

NoObs == [Running |-> FALSE, Health |-> "none", ExitCode |-> 0, failed |-> FALSE]

Absent == [state |-> "absent", owner |-> "none"]

(* config.database.maxRetries: a string when DB_MAX_RETRIES is set in the  *)
(* environment, the number 5 otherwise.                                    *)
MaxRetriesConfigs ==
  {[n |-> DefaultMaxRetries, isString |-> FALSE]} \cup
  {[n |-> k, isString |-> TRUE] : k \in 1..MaxEnvRetries}

Init ==
  /\ pc = "main_access"
  /\ exitCode = -1
  /\ anonService = FALSE
  /\ rules = <<>>
  /\ err = NoErr
  /\ raised = NoErr
  /\ failedStage = "none"
  /\ \E st \in {"absent", "created", "running", "exited"} :
       containers =
         [n \in ContainerNames |->
            IF n = ContainerName /\ st # "absent"
            THEN [state |-> st, owner |-> "earlier"]
            ELSE Absent]
  /\ pool = "null"
  /\ maxRetries \in MaxRetriesConfigs
  /\ attempt = 0
  /\ polls = 0
  /\ delays = 0
  /\ acceptedAt = 0
  /\ schema = {}
  /\ extInstalled = FALSE
  /\ maskedRoles = {}
  /\ labels = {}
  /\ txLabels = {}
  /\ inTx = FALSE
  /\ exactTableName = "undefined"
  /\ queriedTable = "none"
  /\ i = 0
  /\ j = 0
  /\ bound = {}
  /\ committed = FALSE
  /\ txLog = <<>>
  /\ client = NoClient
  /\ exportStarted = FALSE
  /\ outFile = FALSE
  /\ leaked = {}
  /\ dumpExt = FALSE
  /\ processedFile = FALSE
  /\ importLog = NoImport
  /\ cleanupRet = "none"
  /\ cleanupErr = NoErr
  /\ cleanupLogged = NoErr
  /\ cleanupCalls = 0
  /\ cleanupDone = 0
  /\ hi = 0
  /\ inspects = 0
  /\ lastObs = NoObs
  /\ exitSeenAt = 0
  /\ hDelays = 0
  /\ stagesDone = <<>>
  /\ DumperRest
  /\ RunBRest

(***************************************************************************)
(* Errors.  A throw records the error in flight; the first error of a run  *)
(* is remembered with the stage that raised it.                            *)
(***************************************************************************)
Raise(e, stage) ==
  /\ err' = e
  /\ raised' = IF raised = NoErr THEN e ELSE raised
  /\ failedStage' = IF raised = NoErr THEN stage ELSE failedStage

(***************************************************************************)
(* DockerManager.                                                          *)
(***************************************************************************)
(* container.stop(): 404 for an unknown container, 304 for one that is not *)
(* running, otherwise the container ends up exited unless the daemon fails.*)
StopOutcomes(cs, name) ==
  CASE cs[name].state = "absent" ->
         {[containers |-> cs, err |-> "E_docker_404"],
          [containers |-> cs, err |-> "E_docker_500"]}
    [] cs[name].state = "running" ->
         {[containers |-> [cs EXCEPT ![name].state = "exited"], err |-> NoErr],
          [containers |-> cs, err |-> "E_docker_500"]}
    [] OTHER ->
         {[containers |-> cs, err |-> "E_docker_304"],
          [containers |-> cs, err |-> "E_docker_500"]}

RemoveOutcomes(cs, name) ==
  IF cs[name].state = "absent"
  THEN {[containers |-> cs, err |-> "E_docker_404"]}
  ELSE {[containers |-> [cs EXCEPT ![name] = Absent], err |-> NoErr],
        [containers |-> cs, err |-> "E_docker_500"]}

(* catch (error) { if (error.statusCode !== 404) throw error; }            *)
IgnoreNotFound(e) == IF e = "E_docker_404" THEN NoErr ELSE e

ensureCleanContainer(cs, name) ==
  LET stopped == StopOutcomes(cs, name)
      removed == UNION {RemoveOutcomes(r.containers, name) :
                          r \in {x \in stopped : x.err = NoErr}}
      all == {x \in stopped : x.err # NoErr} \cup removed
  IN {[containers |-> r.containers, err |-> IgnoreNotFound(r.err)] : r \in all}

StartOutcomes(cs, name) ==
  {[containers |-> [cs EXCEPT ![name].state = "running"], err |-> NoErr],
   [containers |-> cs, err |-> "E_docker_500"]}

(* createAndStartContainer called by the run who.                          *)
createAndStartContainerBy(cs, name, who) ==
  IF cs[name].state # "absent"
  THEN (* an existing container is reused, started when it is not running *)
       IF cs[name].state = "running"
       THEN {[containers |-> cs, err |-> NoErr], [containers |-> cs, err |-> "E_docker_500"]}
       ELSE StartOutcomes(cs, name)
  ELSE LET created == [cs EXCEPT ![name] = [state |-> "created", owner |-> who]]
       IN StartOutcomes(created, name) \cup {[containers |-> cs, err |-> "E_docker_500"]}

createAndStartContainer(cs, name) == createAndStartContainerBy(cs, name, "run")

(***************************************************************************)
(* main(): the sequence of awaited stages.                                 *)
(***************************************************************************)
(* Faulty variant: the stage is not awaited, its rejection is not seen.     *)
MainNextNoAwait(next, e) == next

(* Faulty variant: the awaited promise never settles, main stays at the    *)
(* await.                                                                  *)
MainNextNeverSettles(next, e) == "main_awaiting"

(* await stage(): a rejected promise transfers control to main's catch.    *)
MainNext(next, e) == IF e # NoErr THEN "main_catch" ELSE next

(* Faulty variant: main's catch exits without calling cleanup().           *)
MainCatchNeverCleans(svc) == FALSE

(* if (anonService) await anonService.cleanup()                            *)
MainCatchCleans(svc) == svc

(* Faulty variant: the exit status is only recorded, the finally block     *)
(* still runs.                                                             *)
ExitReturns(code) == FALSE

(* process.exit(code) ends the process: nothing after it runs.             *)
ExitHalts(code) == TRUE

MainAccess ==
  /\ pc = "main_access"
  /\ \/ /\ pc' = "main_load"
        /\ UNCHANGED errVars
     \/ /\ Raise("E_dump_not_found", "access")
        /\ pc' = "main_catch"
  /\ UNCHANGED <<mainVars, dockerVars, pool, dbVars, waitVars, healthVars, dumperVars, runBVars, ruleVars, exportVars, fileVars, cleanupVars, stageVars>>

MainLoadRules ==
  /\ pc = "main_load"
  /\ \/ /\ rules' \in RuleSets
        /\ pc' = "main_new"
        /\ UNCHANGED errVars
     \/ /\ Raise("E_load_rules", "loadRules")
        /\ pc' = "main_catch"
        /\ UNCHANGED rules
  /\ UNCHANGED <<exitCode, anonService, dockerVars, pool, dbVars, waitVars, healthVars, dumperVars, runBVars, ruleVars, exportVars, fileVars, cleanupVars, stageVars>>

MainNewService ==
  /\ pc = "main_new"
  /\ anonService' = TRUE
  /\ pool' = "null"
  /\ pc' = "init"
  /\ UNCHANGED <<exitCode, rules, errVars, dockerVars, dbVars, waitVars, healthVars, dumperVars, runBVars, ruleVars, exportVars, fileVars, cleanupVars, stageVars>>

(* init() only logs.                                                       *)
ServiceInit ==
  /\ pc = "init"
  /\ pc' = MainNext("setup_dir", err)
  /\ UNCHANGED <<mainVars, errVars, dockerVars, pool, dbVars, waitVars, healthVars, dumperVars, runBVars, ruleVars, exportVars, fileVars, cleanupVars, stageVars>>

MainAwaitSetup ==
  /\ pc = "setup_end"
  /\ pc' = MainNext("rules_check", err)
  /\ UNCHANGED <<mainVars, errVars, dockerVars, pool, dbVars, waitVars, healthVars, dumperVars, runBVars, ruleVars, exportVars, fileVars, cleanupVars, stageVars>>

MainAwaitProcessRules ==
  /\ pc = "rules_end"
  /\ pc' = MainNext("export_start", err)
  /\ UNCHANGED <<mainVars, errVars, dockerVars, pool, dbVars, waitVars, healthVars, dumperVars, runBVars, ruleVars, exportVars, fileVars, cleanupVars, stageVars>>

MainAwaitExport ==
  /\ pc = "export_end"
  /\ pc' = MainNext("main_finally", err)
  /\ UNCHANGED <<mainVars, errVars, dockerVars, pool, dbVars, waitVars, healthVars, dumperVars, runBVars, ruleVars, exportVars, fileVars, cleanupVars, stageVars>>

CallCleanup(ret) ==
  /\ pc' = "cleanup_pool"
  /\ cleanupRet' = ret
  /\ cleanupErr' = NoErr
  /\ cleanupLogged' = NoErr
  /\ cleanupCalls' = cleanupCalls + 1
  /\ UNCHANGED cleanupDone

MainCatch ==
  /\ pc = "main_catch"
  /\ IF MainCatchCleans(anonService)
     THEN CallCleanup("main_catch_exit")
     ELSE /\ pc' = "main_catch_exit"
          /\ UNCHANGED cleanupVars
  /\ UNCHANGED <<mainVars, errVars, dockerVars, pool, dbVars, waitVars, healthVars, dumperVars, runBVars, ruleVars, exportVars, fileVars, stageVars>>

MainCatchExit ==
  /\ pc = "main_catch_exit"
  /\ exitCode' = 1
  /\ pc' = IF ExitHalts(1) THEN "exited" ELSE "main_finally"
  /\ UNCHANGED <<anonService, rules, errVars, dockerVars, pool, dbVars, waitVars, healthVars, dumperVars, runBVars, ruleVars, exportVars, fileVars, cleanupVars, stageVars>>

(* Faulty variant: the finally block exits without cleaning up.            *)
FinallyNeverCleans(svc) == FALSE

(* finally: if (anonService) await anonService.cleanup()                   *)
FinallyCleans(svc) == svc

MainFinally ==
  /\ pc = "main_finally"
  /\ IF FinallyCleans(anonService)
     THEN CallCleanup("main_finally_exit")
     ELSE /\ pc' = "main_finally_exit"
          /\ UNCHANGED cleanupVars
  /\ UNCHANGED <<mainVars, errVars, dockerVars, pool, dbVars, waitVars, healthVars, dumperVars, runBVars, ruleVars, exportVars, fileVars, stageVars>>

MainFinallyExit ==
  /\ pc = "main_finally_exit"
  /\ exitCode' = 0
  /\ pc' = "exited"
  /\ UNCHANGED <<anonService, rules, errVars, dockerVars, pool, dbVars, waitVars, healthVars, dumperVars, runBVars, ruleVars, exportVars, fileVars, cleanupVars, stageVars>>

(***************************************************************************)
(* AnonymizationService.setup and the steps it awaits.                     *)
(***************************************************************************)
setupFrame == <<mainVars, pool, ruleVars, exportVars, cleanupVars>>

SetupFail(e, stage) ==
  /\ Raise(e, stage)
  /\ pc' = "setup_catch"

(* The awaits of setup, in the order of its try block.                     *)
SetupSteps ==
  <<"setup_dir", "setup_clean", "setup_create", "setup_wait", "setup_initdb",
    "setup_import", "setup_psql", "setup_anon", "setup_pool", "setup_end">>

NextIn(steps, step) ==
  steps[(CHOOSE k \in 1..(Len(steps) - 1) : steps[k] = step) + 1]

(* Faulty variant: setupAnonymization is awaited before importOriginalDump.*)
AfterStepMaskingFirst(step) ==
  NextIn(<<"setup_dir", "setup_clean", "setup_create", "setup_wait", "setup_initdb",
           "setup_anon", "setup_import", "setup_psql", "setup_pool", "setup_end">>, step)

(* The step setup awaits after a step that returned.                       *)
AfterStep(step) == NextIn(SetupSteps, step)

(* A stage has completed.                                                  *)
StageDone(stage) == stagesDone' = Append(stagesDone, stage)

ensureDumpsDirectory ==
  /\ pc = "setup_dir"
  /\ \/ /\ pc' = AfterStep("setup_dir")
        /\ UNCHANGED errVars
     \/ SetupFail("E_mkdir", "setup")
  /\ UNCHANGED <<setupFrame, fileVars, stageVars, dockerVars, dbVars, waitVars, healthVars, dumperVars, runBVars>>

SetupEnsureCleanContainer ==
  /\ pc = "setup_clean"
  /\ \E r \in ensureCleanContainer(containers, ContainerName) :
       /\ containers' = r.containers
       /\ IF r.err = NoErr
          THEN pc' = AfterStep("setup_clean") /\ UNCHANGED errVars
          ELSE SetupFail(r.err, "setup")
  /\ UNCHANGED <<setupFrame, fileVars, stageVars, dbVars, waitVars, healthVars, dumperVars, runBVars>>

SetupCreateAndStartContainer ==
  /\ pc = "setup_create"
  /\ \E r \in createAndStartContainer(containers, ContainerName) :
       /\ containers' = r.containers
       /\ IF r.err = NoErr
          THEN /\ pc' = AfterStep("setup_create")
               /\ attempt' = 1
               /\ StageDone("provisioning")
               /\ UNCHANGED errVars
          ELSE SetupFail(r.err, "setup") /\ UNCHANGED <<attempt, stageVars>>
  /\ UNCHANGED <<setupFrame, fileVars, dbVars, maxRetries, polls, delays, acceptedAt, healthVars, dumperVars, runBVars>>

(* attempt === this.maxRetries: strict equality, false for a string.       *)
IsLastAttempt(a, mr) == ~mr.isString /\ a = mr.n

(* Faulty variant: a rejected attempt is followed at once by the next.     *)
DelaySkipped(d) == d

(* await new Promise(resolve => setTimeout(resolve, this.retryInterval))   *)
Delayed(d) == d + 1

(* One iteration of the loop of waitForPostgres: a trial connection        *)
(* (connect, SELECT 1), then return, throw, or delay and go round again;   *)
(* the function returns when the loop condition attempt <= maxRetries no   *)
(* longer holds.                                                           *)
waitForPostgres ==
  /\ pc = "setup_wait"
  /\ IF attempt <= maxRetries.n
     THEN /\ polls' = polls + 1
          /\ \/ /\ containers[ContainerName].state = "running"
                /\ acceptedAt' = polls + 1
                /\ pc' = AfterStep("setup_wait")
                /\ StageDone("connectivity")
                /\ UNCHANGED <<attempt, delays, errVars>>
             \/ /\ IF IsLastAttempt(attempt, maxRetries)
                   THEN SetupFail("E_pg_connect", "setup") /\ UNCHANGED <<attempt, delays>>
                   ELSE /\ delays' = Delayed(delays)
                        /\ attempt' = attempt + 1
                        /\ UNCHANGED <<pc, errVars>>
                /\ UNCHANGED <<acceptedAt, stageVars>>
     ELSE /\ pc' = AfterStep("setup_wait")
          /\ StageDone("connectivity")
          /\ UNCHANGED <<attempt, polls, delays, acceptedAt, errVars>>
  /\ UNCHANGED <<setupFrame, fileVars, dockerVars, dbVars, maxRetries, healthVars, dumperVars, runBVars>>

initializeAnonDatabase ==
  /\ pc = "setup_initdb"
  /\ \/ /\ containers[ContainerName].state = "running"
        /\ schema' = {}
        /\ pc' = AfterStep("setup_initdb")
        /\ StageDone("database")
        /\ UNCHANGED errVars
     \/ SetupFail("E_init_database", "setup") /\ UNCHANGED <<schema, stageVars>>
  /\ UNCHANGED <<setupFrame, fileVars, dockerVars, waitVars, healthVars, dumperVars, runBVars, extInstalled, maskedRoles, labels, txLabels, inTx>>

(* Dumper.preprocessDump: the transformed copy is written to               *)
(* <dump>.processed; a failing pipeline may leave the file it opened.      *)
preprocessDump ==
  /\ pc = "setup_import"
  /\ \/ /\ processedFile' = TRUE
        /\ pc' = AfterStep("setup_import")
        /\ UNCHANGED errVars
     \/ /\ processedFile' \in BOOLEAN
        /\ SetupFail("E_preprocess", "setup")
  /\ UNCHANGED <<setupFrame, importLog, stageVars, dockerVars, waitVars, healthVars, dumperVars, runBVars, dbVars>>

(* What importDump and importOriginalDump do to the processed copy when    *)
(* the import has ended: nothing, neither of them deletes it.              *)
ProcessedCopyAfterImport(exists) == exists

(* Faulty variant: psql started with ON_ERROR_STOP=on, a failing statement *)
(* ends it with status 3.                                                  *)
PsqlExitOnErrorStop(ran, failed) ==
  IF ~ran THEN 2 ELSE IF failed # {} THEN 3 ELSE 0

(* The exit status of psql --set ON_ERROR_STOP=off -f <dump>: 0 when it    *)
(* ran through the file, whatever the statements did; non-zero when psql   *)
(* could not run (docker exec failed, no connection, no file). execAsync   *)
(* rejects on a non-zero status only.                                      *)
PsqlExit(ran, failed) ==
  IF ~ran THEN 2 ELSE 0

(* The statements psql -f executes: all of the file, a failing statement   *)
(* is reported and the next one is read.                                   *)
StatementsRun(failed) == 1..Len(DumpStatements)

(* The restore runs importDump starts for one dump: one psql -f of the     *)
(* whole file, schema and data together.                                   *)
RestorePhases(dumpPath) == <<"full">>

(* Dumper.importDump: psql -f of the processed dump with                   *)
(* ON_ERROR_STOP=off: the tables whose statements succeeded are created;   *)
(* the call throws when docker exec ends with a non-zero status.           *)
importDump ==
  /\ pc = "setup_psql"
  /\ processedFile' = ProcessedCopyAfterImport(processedFile)
  /\ \E ran \in BOOLEAN, failed \in SUBSET (1..Len(DumpStatements)) :
       LET created == {DumpStatements[k] : k \in StatementsRun(failed) \ failed} IN
       /\ ran \/ failed = {}
       /\ importLog' = [ran |-> ran, failed |-> failed,
                        created |-> IF ran THEN created ELSE {},
                        phases |-> RestorePhases(DumpPath)]
       /\ schema' = IF ran THEN created ELSE schema
       /\ IF PsqlExit(ran, failed) = 0
          THEN /\ pc' = AfterStep("setup_psql")
               /\ StageDone("import")
               /\ UNCHANGED errVars
          ELSE SetupFail("E_import", "setup") /\ UNCHANGED stageVars
  /\ UNCHANGED <<setupFrame, dockerVars, waitVars, healthVars, dumperVars, runBVars, extInstalled, maskedRoles, labels, txLabels, inTx>>

(* The two awaits of importOriginalDump.                                   *)
importOriginalDump ==
  \/ preprocessDump
  \/ importDump

(* CREATE EXTENSION anon; SELECT anon.init(); then the dump_anon role,     *)
(* labelled MASKED, and its grants.                                        *)
setupAnonymization ==
  /\ pc = "setup_anon"
  /\ \/ /\ extInstalled' = TRUE
        /\ maskedRoles' = {"dump_anon"}
        /\ pc' = AfterStep("setup_anon")
        /\ StageDone("masking")
        /\ UNCHANGED errVars
     \/ /\ SetupFail("E_create_extension", "setup")
        /\ UNCHANGED <<extInstalled, maskedRoles, stageVars>>
     \/ /\ extInstalled' = TRUE
        /\ SetupFail("E_role_setup", "setup")
        /\ UNCHANGED <<maskedRoles, stageVars>>
     \/ /\ extInstalled' = TRUE
        /\ maskedRoles' = {"dump_anon"}
        /\ SetupFail("E_grants", "setup")
        /\ UNCHANGED stageVars
  /\ UNCHANGED <<setupFrame, fileVars, dockerVars, waitVars, healthVars, dumperVars, runBVars, schema, labels, txLabels, inTx>>

createPool ==
  /\ pc = "setup_pool"
  /\ pool' = "open"
  /\ pc' = AfterStep("setup_pool")
  /\ UNCHANGED <<mainVars, errVars, dockerVars, dbVars, waitVars, healthVars, dumperVars, runBVars, ruleVars, exportVars, fileVars, cleanupVars, stageVars>>

(* catch (error) { await this.cleanup(); throw error; }                    *)
SetupCatch ==
  /\ pc = "setup_catch"
  /\ CallCleanup("setup_rethrow")
  /\ UNCHANGED <<mainVars, errVars, dockerVars, pool, dbVars, waitVars, healthVars, dumperVars, runBVars, ruleVars, exportVars, fileVars, stageVars>>

(* The error leaving setup: the caught one, unless cleanup() itself threw. *)
SetupThrown(e, ce) == IF ce # NoErr THEN ce ELSE e

SetupRethrow ==
  /\ pc = "setup_rethrow"
  /\ err' = SetupThrown(err, cleanupErr)
  /\ pc' = "setup_end"
  /\ UNCHANGED <<mainVars, raised, failedStage, dockerVars, pool, dbVars, waitVars, healthVars, dumperVars, runBVars, ruleVars, exportVars, fileVars, cleanupVars, stageVars>>

(***************************************************************************)
(* AnonymizationService.cleanup.                                           *)
(***************************************************************************)
(* Faulty variant: the catch of cleanup() rethrows.                         *)
CleanupRethrows(e) == e

(* catch (error) { logger.error(...) }: nothing leaves cleanup().          *)
CleanupCaught(e) == NoErr

(* pool.end() rejects when the pool was ended before.                      *)
CleanupPool ==
  /\ pc = "cleanup_pool"
  /\ CASE pool = "null" ->
            /\ pc' = "cleanup_container"
            /\ UNCHANGED <<pool, cleanupErr>>
       [] pool = "open" ->
            \/ /\ pool' = "ended"
               /\ pc' = "cleanup_container"
               /\ UNCHANGED cleanupErr
            \/ /\ cleanupErr' = "E_pool_end"
               /\ pc' = "cleanup_catch"
               /\ UNCHANGED pool
       [] OTHER ->
            /\ cleanupErr' = "E_pool_ended_twice"
            /\ pc' = "cleanup_catch"
            /\ UNCHANGED pool
  /\ UNCHANGED <<mainVars, errVars, dockerVars, dbVars, waitVars, healthVars, dumperVars, runBVars, ruleVars, exportVars, fileVars, stageVars, cleanupRet, cleanupLogged, cleanupCalls, cleanupDone>>

(* The name cleanup() hands to ensureCleanContainer: none.                 *)
CleanupContainerName == UndefinedName

CleanupContainer ==
  /\ pc = "cleanup_container"
  /\ \E r \in ensureCleanContainer(containers, CleanupContainerName) :
       /\ containers' = r.containers
       /\ cleanupErr' = r.err
       /\ pc' = IF r.err = NoErr THEN "cleanup_return" ELSE "cleanup_catch"
  /\ UNCHANGED <<mainVars, errVars, pool, dbVars, waitVars, healthVars, dumperVars, runBVars, ruleVars, exportVars, fileVars, stageVars, cleanupRet, cleanupLogged, cleanupCalls, cleanupDone>>

CleanupCatch ==
  /\ pc = "cleanup_catch"
  /\ cleanupLogged' = cleanupErr
  /\ cleanupErr' = CleanupCaught(cleanupErr)
  /\ pc' = "cleanup_return"
  /\ UNCHANGED <<mainVars, errVars, dockerVars, pool, dbVars, waitVars, healthVars, dumperVars, runBVars, ruleVars, exportVars, fileVars, stageVars, cleanupRet, cleanupCalls, cleanupDone>>

CleanupReturn ==
  /\ pc = "cleanup_return"
  /\ cleanupDone' = cleanupDone + 1
  /\ pc' = cleanupRet
  /\ UNCHANGED <<mainVars, errVars, dockerVars, pool, dbVars, waitVars, healthVars, dumperVars, runBVars, ruleVars, exportVars, fileVars, stageVars, cleanupRet, cleanupErr, cleanupLogged, cleanupCalls>>

(***************************************************************************)
(* AnonymizationService.processRules: one transaction on a pooled client.  *)
(***************************************************************************)
rulesFrame == <<mainVars, dockerVars, pool, waitVars, healthVars, dumperVars, runBVars, exportVars, fileVars, cleanupVars,
                schema, extInstalled, maskedRoles>>

(* SECURITY LABEL ... ON COLUMN t.c IS 'MASKED WITH FUNCTION m': the label *)
(* of the column is set, replacing an earlier one.                         *)
Bind(L, t, c, m) ==
  {l \in L : ~(l.table = t /\ l.column = c)} \cup
  {[table |-> t, column |-> c, mask |-> m]}

(* Rows of the query of validateTable.                                     *)
Matches(tableName) == {s \in schema : lower(s) = lower(tableName)}

(* Faulty variant: the statements name the table as the rule spells it.    *)
StatementTableAsWritten(tableName, exact) == tableName

(* The table the SECURITY LABEL statements and the count query name:       *)
(* "${this.exactTableName}", quoted, so it is looked up case-sensitively.  *)
StatementTable(tableName, exact) == exact

(* Faulty variant: only the first column of the masks is bound.            *)
MaskEntriesFirstOnly(tableRules) ==
  IF tableRules.hasMasks THEN SubSeq(tableRules.masks, 1, 1) ELSE <<>>

(* Object.entries(tableRules.masks), nothing when there is no masks member.*)
MaskEntries(tableRules) == IF tableRules.hasMasks THEN tableRules.masks ELSE <<>>

(* Faulty variant: a table without a match is an error.                    *)
MissingTableIsFatal(tableName) == "E_table_missing"

(* What a table without a match raises: nothing, the loop continues.       *)
MissingTableError(tableName) == NoErr

(* Faulty variant: the catch block commits what the transaction did.       *)
RollbackKeepsPending(before, pending) == pending

(* ROLLBACK: the labels of the database are those committed before.        *)
RollbackResult(before, pending) == before

(* Faulty variant: a failing ROLLBACK is thrown in place of the error.     *)
RollbackNotCaught(e) == e

(* client.query('ROLLBACK').catch(() => {})                                *)
RollbackCaught(e) == NoErr

RulesFail(e) ==
  /\ Raise(e, "processRules")
  /\ pc' = "rules_catch"

(* Faulty variant: processRules does not look at its argument.            *)
NoRulesUnchecked(rs) == FALSE

(* !rules || Object.keys(rules).length === 0: no rule object, or one with  *)
(* no keys; both are the empty sequence here.                              *)
NoRules(rs) == Len(rs) = 0

(* const client = await this.pool.connect()                                *)
Acquired(cl) == [cl EXCEPT !.acquired = @ + 1]

(* Faulty variant: release() at the end of the try block only, not in a    *)
(* finally.                                                                *)
ReleasedAfterCatchNever(cl) == cl

(* finally { client.release() } on the way out of the catch block.         *)
ReleasedAfterCatch(cl) == [cl EXCEPT !.released = @ + 1]

(* finally { client.release() } after the try block completed.             *)
ReleasedAfterTry(cl) == [cl EXCEPT !.released = @ + 1]

(* Faulty variant: the count query of verifyMasking goes to the pool.      *)
StatementClientPooled(kind) == IF kind = "verify" THEN "pool" ELSE "client"

(* The connection a statement is sent on: client.query in processRules,    *)
(* validateTable, applyMaskingRules and verifyMasking alike.               *)
StatementClient(kind) == "client"

(* A statement sent: its kind, the rule entry and mask entry it is for,    *)
(* the table name in its text or parameter.                                *)
Stmt(kind, rule, col, table) ==
  [kind |-> kind, rule |-> rule, col |-> col, table |-> table,
   on |-> StatementClient(kind)]

(* await client.query(...): the statement is on the wire, whether it       *)
(* succeeds or fails.                                                      *)
Issue(kind, rule, col, table) == txLog' = Append(txLog, Stmt(kind, rule, col, table))

(* Faulty variant: no continue, a table that was not found is bound with   *)
(* whatever this.exactTableName holds.                                     *)
AfterValidateNoSkip(tableExists) == "rules_apply"

(* if (!tableExists) { ...; continue; } and otherwise on to                *)
(* applyMaskingRules.                                                      *)
AfterValidate(tableExists) == IF tableExists THEN "rules_apply" ELSE "rules_loop"

(* if (!rules || Object.keys(rules).length === 0) throw ...; then          *)
(* this.pool.connect(), both before the try block.                         *)
ProcessRulesEnter ==
  /\ pc = "rules_check"
  /\ IF NoRules(rules)
     THEN Raise("E_no_rules", "processRules") /\ pc' = "rules_end"
     ELSE \/ pc' = "rules_begin" /\ UNCHANGED errVars
          \/ Raise("E_pool_connect", "processRules") /\ pc' = "rules_end"
  /\ client' = IF pc' = "rules_begin" THEN Acquired(client) ELSE client
  /\ UNCHANGED <<rulesFrame, stageVars, labels, txLabels, inTx, exactTableName, queriedTable,
                 i, j, bound, committed, txLog>>

ProcessRulesBegin ==
  /\ pc = "rules_begin"
  /\ Issue("BEGIN", 0, 0, "none")
  /\ \/ /\ inTx' = TRUE
        /\ txLabels' = labels
        /\ i' = 1
        /\ pc' = "rules_loop"
        /\ UNCHANGED errVars
     \/ RulesFail("E_begin") /\ UNCHANGED <<inTx, txLabels, i>>
  /\ UNCHANGED <<rulesFrame, stageVars, labels, exactTableName, queriedTable, j, bound, committed, client>>

validateTable ==
  /\ pc = "rules_loop"
  /\ i <= Len(rules)
  /\ Issue("resolve", i, 0, rules[i].table)
  /\ \/ IF Matches(rules[i].table) = {}
        THEN IF MissingTableError(rules[i].table) = NoErr
             THEN IF AfterValidate(FALSE) = "rules_loop"
                  THEN /\ i' = i + 1
                       /\ UNCHANGED <<pc, errVars, exactTableName, j>>
                  ELSE /\ pc' = AfterValidate(FALSE)
                       /\ j' = 1
                       /\ UNCHANGED <<i, errVars, exactTableName>>
             ELSE /\ RulesFail(MissingTableError(rules[i].table))
                  /\ UNCHANGED <<i, exactTableName, j>>
        ELSE \E s \in Matches(rules[i].table) :
               /\ exactTableName' = s
               /\ j' = 1
               /\ pc' = AfterValidate(TRUE)
               /\ UNCHANGED <<i, errVars>>
     \/ RulesFail("E_validate_query") /\ UNCHANGED <<i, exactTableName, j>>
  /\ queriedTable' = "none"
  /\ UNCHANGED <<rulesFrame, stageVars, labels, txLabels, inTx, bound, committed, client>>

applyMaskingRules ==
  /\ pc = "rules_apply"
  /\ LET entries == MaskEntries(rules[i])
         t == StatementTable(rules[i].table, exactTableName)
     IN IF j > Len(entries)
        THEN /\ pc' = "rules_verify"
             /\ UNCHANGED <<j, txLabels, errVars, queriedTable, txLog>>
        ELSE /\ queriedTable' = t
             /\ Issue("bind", i, j, t)
             /\ \/ /\ t \in schema
                   /\ txLabels' = Bind(txLabels, t, entries[j].column, entries[j].mask)
                   /\ j' = j + 1
                   /\ UNCHANGED <<pc, errVars>>
                \/ RulesFail("E_security_label") /\ UNCHANGED <<j, txLabels>>
  /\ UNCHANGED <<rulesFrame, stageVars, labels, inTx, exactTableName, i, bound, committed, client>>

verifyMasking ==
  /\ pc = "rules_verify"
  /\ LET t == StatementTable(rules[i].table, exactTableName)
     IN /\ queriedTable' = t
        /\ Issue("verify", i, 0, t)
        /\ \/ /\ t \in schema
              /\ i' = i + 1
              /\ pc' = "rules_loop"
              /\ UNCHANGED errVars
           \/ RulesFail("E_verify_query") /\ UNCHANGED i
  /\ UNCHANGED <<rulesFrame, stageVars, labels, txLabels, inTx, exactTableName, j, bound, committed, client>>

ProcessRulesCommit ==
  /\ pc = "rules_loop"
  /\ i > Len(rules)
  /\ Issue("COMMIT", 0, 0, "none")
  /\ \/ /\ labels' = txLabels
        /\ txLabels' = {}
        /\ inTx' = FALSE
        /\ bound' = {<<l.table, l.column>> : l \in txLabels \ labels}
        /\ committed' = TRUE
        /\ i' = 0
        /\ j' = 0
        /\ queriedTable' = "none"
        /\ pc' = "rules_end"
        /\ StageDone("rules")
        /\ client' = ReleasedAfterTry(client)
        /\ UNCHANGED errVars
     \/ RulesFail("E_commit")
        /\ UNCHANGED <<labels, txLabels, inTx, bound, committed, i, j, queriedTable,
                       stageVars, client>>
  /\ UNCHANGED <<rulesFrame, exactTableName>>

(* catch: ROLLBACK (its own failure swallowed), log, rethrow; finally:     *)
(* client.release().  A ROLLBACK that fails leaves the transaction of the  *)
(* released client open, its labels uncommitted.                           *)
ProcessRulesCatch ==
  /\ pc = "rules_catch"
  /\ Issue("ROLLBACK", 0, 0, "none")
  /\ \/ /\ labels' = RollbackResult(labels, txLabels)
        /\ txLabels' = {}
        /\ inTx' = FALSE
        /\ UNCHANGED err
     \/ /\ err' = IF RollbackCaught("E_rollback") # NoErr
                   THEN RollbackCaught("E_rollback") ELSE err
        /\ UNCHANGED <<labels, txLabels, inTx>>
  /\ i' = 0
  /\ j' = 0
  /\ queriedTable' = "none"
  /\ pc' = "rules_end"
  /\ client' = ReleasedAfterCatch(client)
  /\ UNCHANGED <<rulesFrame, stageVars, raised, failedStage, exactTableName, bound, committed>>

(***************************************************************************)
(* AnonymizationService.createAnonymizedDump.                              *)
(***************************************************************************)
exportFrame == <<mainVars, dockerVars, pool, waitVars, healthVars, dumperVars, runBVars, ruleVars, cleanupVars,
                 schema, maskedRoles, txLabels, inTx>>

(* pg_dump -U this.user: the role the final dump is taken by.              *)
DumpRole == "admin"

(* A column is exported masked when its label is present, the extension is *)
(* installed and the dumping role is a masked role; nothing in the         *)
(* pipeline rewrites the stored values.                                    *)
EffectiveMask(b, role) ==
  /\ extInstalled
  /\ role \in maskedRoles
  /\ \E l \in labels : l.table = b[1] /\ l.column = b[2]

ExportFail(e) ==
  /\ Raise(e, "createAnonymizedDump")
  /\ pc' = "export_end"

(* fs.writeFile(cleanup.sql), then docker cp of it into the container.     *)
ExportWriteScript ==
  /\ pc = "export_start"
  /\ exportStarted' = TRUE
  /\ \/ pc' = "export_strip" /\ UNCHANGED errVars
     \/ ExportFail("E_write_script")
     \/ ExportFail("E_docker_cp")
  /\ UNCHANGED <<exportFrame, fileVars, stageVars, labels, extInstalled, outFile, leaked, dumpExt>>

(* psql -f cleanup.sql, ON_ERROR_STOP unset: psql exits 0 whether or not   *)
(* the DO block ran; only a failing docker exec raises.                    *)
ExportStripMasking ==
  /\ pc = "export_strip"
  /\ \/ /\ labels' = {}
        /\ extInstalled' = FALSE
        /\ pc' = "export_dump"
        /\ UNCHANGED errVars
     \/ /\ pc' = "export_dump"
        /\ UNCHANGED <<labels, extInstalled, errVars>>
     \/ ExportFail("E_docker_exec") /\ UNCHANGED <<labels, extInstalled>>
  /\ UNCHANGED <<exportFrame, fileVars, stageVars, exportStarted, outFile, leaked, dumpExt>>

(* pg_dump --no-security-labels of the whole database: the dump has the    *)
(* CREATE EXTENSION of every extension still installed, no label.          *)
ExportPgDump ==
  /\ pc = "export_dump"
  /\ \/ /\ outFile' = TRUE
        /\ leaked' = {b \in bound : ~EffectiveMask(b, DumpRole)}
        /\ dumpExt' = extInstalled
        /\ pc' = "export_end"
        /\ StageDone("export")
        /\ UNCHANGED errVars
     \/ ExportFail("E_pg_dump") /\ UNCHANGED <<outFile, leaked, dumpExt, stageVars>>
  /\ UNCHANGED <<exportFrame, fileVars, labels, extInstalled, exportStarted>>

Next ==
  \/ MainAccess
  \/ MainLoadRules
  \/ MainNewService
  \/ ServiceInit
  \/ ensureDumpsDirectory
  \/ SetupEnsureCleanContainer
  \/ SetupCreateAndStartContainer
  \/ waitForPostgres
  \/ initializeAnonDatabase
  \/ importOriginalDump
  \/ setupAnonymization
  \/ createPool
  \/ SetupCatch
  \/ SetupRethrow
  \/ MainAwaitSetup
  \/ ProcessRulesEnter
  \/ ProcessRulesBegin
  \/ validateTable
  \/ applyMaskingRules
  \/ verifyMasking
  \/ ProcessRulesCommit
  \/ ProcessRulesCatch
  \/ MainAwaitProcessRules
  \/ ExportWriteScript
  \/ ExportStripMasking
  \/ ExportPgDump
  \/ MainAwaitExport
  \/ MainCatch
  \/ MainCatchExit
  \/ MainFinally
  \/ MainFinallyExit
  \/ CleanupPool
  \/ CleanupContainer
  \/ CleanupCatch
  \/ CleanupReturn

Spec == Init /\ [][Next]_vars

(* The run on Node's event loop: every awaited call settles, and the       *)
(* continuation of a settled await is run, so a run that can take a step   *)
(* takes one.                                                              *)
SpecLive == Spec /\ WF_vars(Next)

(***************************************************************************)
(* cleanup() as a method of the service: a caller that holds a service     *)
(* after setup, in any state of its pool and container, and invokes        *)
(* cleanup() up to MaxCleanupCalls times in a row.                         *)
(***************************************************************************)
InitCleanup ==
  /\ pc = "caller"
  /\ exitCode = -1
  /\ anonService = TRUE
  /\ rules = <<>>
  /\ err = NoErr
  /\ raised = NoErr
  /\ failedStage = "none"
  /\ \E st \in {"absent", "created", "running", "exited"} :
       containers =
         [n \in ContainerNames |->
            IF n = ContainerName /\ st # "absent"
            THEN [state |-> st, owner |-> "run"]
            ELSE Absent]
  /\ pool \in {"null", "open"}
  /\ maxRetries \in MaxRetriesConfigs
  /\ attempt = 0
  /\ polls = 0
  /\ delays = 0
  /\ acceptedAt = 0
  /\ schema = {}
  /\ extInstalled = TRUE
  /\ maskedRoles = {"dump_anon"}
  /\ labels = {}
  /\ txLabels = {}
  /\ inTx = FALSE
  /\ exactTableName = "undefined"
  /\ queriedTable = "none"
  /\ i = 0
  /\ j = 0
  /\ bound = {}
  /\ committed = FALSE
  /\ txLog = <<>>
  /\ client = NoClient
  /\ exportStarted = FALSE
  /\ outFile = FALSE
  /\ leaked = {}
  /\ dumpExt = FALSE
  /\ processedFile = FALSE
  /\ importLog = NoImport
  /\ cleanupRet = "none"
  /\ cleanupErr = NoErr
  /\ cleanupLogged = NoErr
  /\ cleanupCalls = 0
  /\ cleanupDone = 0
  /\ hi = 0
  /\ inspects = 0
  /\ lastObs = NoObs
  /\ exitSeenAt = 0
  /\ hDelays = 0
  /\ stagesDone = <<>>
  /\ DumperRest
  /\ RunBRest

CallerInvokesCleanup ==
  /\ pc = "caller"
  /\ cleanupCalls < MaxCleanupCalls
  /\ CallCleanup("caller")
  /\ UNCHANGED <<mainVars, errVars, dockerVars, pool, dbVars, waitVars, healthVars, dumperVars, runBVars, ruleVars, exportVars, fileVars, stageVars>>

NextCleanup ==
  \/ CallerInvokesCleanup
  \/ CleanupPool
  \/ CleanupContainer
  \/ CleanupCatch
  \/ CleanupReturn

SpecCleanup == InitCleanup /\ [][NextCleanup]_vars

(***************************************************************************)
(* waitForContainerHealth of the first generation (the version with the    *)
(* exit-code test), awaited by initializeContainer once the container is   *)
(* created and started.                                                    *)
(***************************************************************************)
HealthMaxRetries == 30

(* containerInfo.State as an inspect can report it: a running container    *)
(* has ExitCode 0; Health is "none" when State.Health is absent.           *)
InspectStates ==
  {[Running |-> TRUE, Health |-> h, ExitCode |-> 0, failed |-> FALSE] :
     h \in {"none", "starting", "healthy", "unhealthy"}} \cup
  {[Running |-> FALSE, Health |-> h, ExitCode |-> c, failed |-> FALSE] :
     h \in {"none", "starting", "unhealthy"}, c \in {0, 1}}

(* container.inspect() rejected.                                           *)
InspectFailed == [Running |-> FALSE, Health |-> "none", ExitCode |-> 0, failed |-> TRUE]

(* Faulty variant: only a reported health status of healthy is accepted.   *)
IsHealthyStatusOnly(state) == state.Health = "healthy"

(* state.Running && (!state.Health || state.Health.Status === 'healthy')   *)
IsHealthy(state) ==
  state.Running /\ (state.Health = "none" \/ state.Health = "healthy")

(* state.ExitCode && state.ExitCode !== 0                                  *)
HasExited(state) == state.ExitCode # 0

(* catch (error) { ...; if (i === maxRetries - 1) throw error; }           *)
HealthCatchRethrows(k) == k = HealthMaxRetries - 1

InitHealth ==
  /\ pc = "health_wait"
  /\ exitCode = -1
  /\ anonService = TRUE
  /\ rules = <<>>
  /\ err = NoErr
  /\ raised = NoErr
  /\ failedStage = "none"
  /\ containers =
       [n \in ContainerNames |->
          IF n = ContainerName THEN [state |-> "running", owner |-> "run"] ELSE Absent]
  /\ pool = "null"
  /\ maxRetries \in MaxRetriesConfigs
  /\ attempt = 0
  /\ polls = 0
  /\ delays = 0
  /\ acceptedAt = 0
  /\ schema = {}
  /\ extInstalled = FALSE
  /\ maskedRoles = {}
  /\ labels = {}
  /\ txLabels = {}
  /\ inTx = FALSE
  /\ exactTableName = "undefined"
  /\ queriedTable = "none"
  /\ i = 0
  /\ j = 0
  /\ bound = {}
  /\ committed = FALSE
  /\ txLog = <<>>
  /\ client = NoClient
  /\ exportStarted = FALSE
  /\ outFile = FALSE
  /\ leaked = {}
  /\ dumpExt = FALSE
  /\ processedFile = FALSE
  /\ importLog = NoImport
  /\ cleanupRet = "none"
  /\ cleanupErr = NoErr
  /\ cleanupLogged = NoErr
  /\ cleanupCalls = 0
  /\ cleanupDone = 0
  /\ hi = 0
  /\ inspects = 0
  /\ lastObs = NoObs
  /\ exitSeenAt = 0
  /\ hDelays = 0
  /\ stagesDone = <<>>
  /\ DumperRest
  /\ RunBRest

healthFrame ==
  <<dumperVars, runBVars, mainVars, dockerVars, pool, dbVars, waitVars, ruleVars, exportVars, fileVars, cleanupVars, stageVars>>

(* One iteration of the loop: inspect, then return, or throw into the      *)
(* catch of the same iteration, or delay; the catch rethrows only in the   *)
(* last iteration, otherwise the loop goes on with the next inspect, the   *)
(* setTimeout of the try block skipped.                                    *)
waitForContainerHealth ==
  /\ pc = "health_wait"
  /\ hi < HealthMaxRetries
  /\ inspects' = inspects + 1
  /\ \E st \in InspectStates \cup {InspectFailed} :
       /\ lastObs' = st
       /\ exitSeenAt' = IF exitSeenAt = 0 /\ ~st.failed /\ st.ExitCode # 0
                        THEN inspects + 1 ELSE exitSeenAt
       /\ CASE ~st.failed /\ IsHealthy(st) ->
                 /\ pc' = "health_returned"
                 /\ UNCHANGED <<hi, hDelays, errVars>>
            [] st.failed \/ (~IsHealthy(st) /\ HasExited(st)) ->
                 IF HealthCatchRethrows(hi)
                 THEN /\ Raise(IF st.failed THEN "E_inspect" ELSE "E_container_exited",
                               "initializeContainer")
                      /\ pc' = "health_raised"
                      /\ UNCHANGED <<hi, hDelays>>
                 ELSE /\ hi' = hi + 1
                      /\ UNCHANGED <<pc, hDelays, errVars>>
            [] OTHER ->
                 /\ hDelays' = Delayed(hDelays)
                 /\ hi' = hi + 1
                 /\ UNCHANGED <<pc, errVars>>
  /\ UNCHANGED healthFrame

(* throw new Error('Container health check failed after max retries')      *)
HealthCheckTimeout ==
  /\ pc = "health_wait"
  /\ hi >= HealthMaxRetries
  /\ Raise("E_health_timeout", "initializeContainer")
  /\ pc' = "health_raised"
  /\ UNCHANGED <<healthFrame, healthVars, dumperVars, runBVars>>

NextHealth ==
  \/ waitForContainerHealth
  \/ HealthCheckTimeout

SpecHealth == InitHealth /\ [][NextHealth]_vars

(***************************************************************************)
(* Every variable of the pipeline as the constructor leaves it, for the    *)
(* specifications that exercise one collaborator alone.                    *)
(***************************************************************************)
PipelineRest ==
  /\ exitCode = -1
  /\ anonService = FALSE
  /\ rules = <<>>
  /\ err = NoErr
  /\ raised = NoErr
  /\ failedStage = "none"
  /\ containers = [n \in ContainerNames |-> Absent]
  /\ pool = "null"
  /\ maxRetries = [n |-> DefaultMaxRetries, isString |-> FALSE]
  /\ attempt = 0
  /\ polls = 0
  /\ delays = 0
  /\ acceptedAt = 0
  /\ schema = {}
  /\ extInstalled = FALSE
  /\ maskedRoles = {}
  /\ labels = {}
  /\ txLabels = {}
  /\ inTx = FALSE
  /\ exactTableName = "undefined"
  /\ queriedTable = "none"
  /\ i = 0
  /\ j = 0
  /\ bound = {}
  /\ committed = FALSE
  /\ txLog = <<>>
  /\ client = NoClient
  /\ exportStarted = FALSE
  /\ outFile = FALSE
  /\ leaked = {}
  /\ dumpExt = FALSE
  /\ processedFile = FALSE
  /\ importLog = NoImport
  /\ cleanupRet = "none"
  /\ cleanupErr = NoErr
  /\ cleanupLogged = NoErr
  /\ cleanupCalls = 0
  /\ cleanupDone = 0
  /\ hi = 0
  /\ inspects = 0
  /\ lastObs = NoObs
  /\ exitSeenAt = 0
  /\ hDelays = 0
  /\ stagesDone = <<>>

pipelineVars ==
  <<exitCode, anonService, rules, errVars, dockerVars, pool, dbVars, waitVars,
    ruleVars, exportVars, fileVars, cleanupVars, healthVars, stageVars>>

(***************************************************************************)
(* Dumper.preprocessDump and transformDumpFile.  The content of a dump is  *)
(* a sequence of pieces of text: the two settings the rewrite looks for,   *)
(* the comment prefix "-- ", a single quote, other text.  q counts how     *)
(* often the quotes inside a piece were doubled.                           *)
(***************************************************************************)
Piece(k) == [k |-> k, q |-> 0]

(* "SET transaction_timeout = 0;", "-- ", the set_config of search_path    *)
(* with '' and with 'public', "'", and text without any of these.          *)
PieceKinds == {"timeout", "dash", "sp_empty", "sp_public", "quote", "text"}

Contents == SeqsUpTo({Piece(k) : k \in PieceKinds}, MaxLen)

(* .replace(/SET transaction_timeout = 0;/g, '-- SET transaction_timeout   *)
(* = 0;'): every occurrence gets the prefix, also one that has it already. *)
CommentTimeout(piece) ==
  IF piece.k = "timeout" THEN <<Piece("dash"), piece>> ELSE <<piece>>

(* .replace(/SELECT pg_catalog.set_config\('search_path', '', false\);/g,   *)
(* "...('search_path', 'public', false);")                                 *)
ReplaceSearchPath(piece) ==
  IF piece.k = "sp_empty" /\ piece.q = 0 THEN [piece EXCEPT !.k = "sp_public"] ELSE piece

(* Faulty variant: the quotes are left as they are.                        *)
EscapeQuotesNever(piece, cut) == <<piece>>

(* .replace(/'/g, "''"): every quote is doubled, those inside the          *)
(* search_path statements too.                                             *)
EscapeQuotes(piece, cut) ==
  CASE piece.k = "quote" -> <<piece, piece>>
    [] piece.k \in {"sp_empty", "sp_public"} -> <<[piece EXCEPT !.q = @ + 1]>>
    [] OTHER -> <<piece>>

(* The two settings rewrites on one piece, in the order of the replace     *)
(* chain; a piece cut by the boundary of two chunks matches neither.       *)
RewritePiece(piece, cut) ==
  IF cut THEN <<piece>>
  ELSE LET commented == CommentTimeout(piece)
       IN [x \in 1..Len(commented) |-> ReplaceSearchPath(commented[x])]

RECURSIVE RewriteSettings(_, _)
(* The settings rewrites on the pieces of c, piece number cut left as it   *)
(* is.                                                                     *)
RewriteSettings(c, cut) ==
  IF c = <<>> THEN <<>>
  ELSE RewritePiece(c[1], cut = 1) \o RewriteSettings(Tail(c), cut - 1)

RECURSIVE EscapeAllQuotes(_)
EscapeAllQuotes(c) ==
  IF c = <<>> THEN <<>>
  ELSE EscapeQuotes(c[1], FALSE) \o EscapeAllQuotes(Tail(c))

(* The transform of transformDumpFile on a file read in chunks; cut is the *)
(* piece that a chunk boundary falls into, 0 for none.                     *)
TransformDump(c, cut) == EscapeAllQuotes(RewriteSettings(c, cut))

(* Faulty variant: the result is written over the input.                   *)
ProcessedPathInPlace(dumpPath) == dumpPath

(* const tempPath = `${dumpPath}.processed`                                *)
ProcessedPath(dumpPath) ==
  IF dumpPath = DumpPath THEN "dump.sql.processed" ELSE "dump.sql.processed.processed"

Prefixes(c) == {SubSeq(c, 1, n) : n \in 0..Len(c)}

InitDumper ==
  /\ pc = "dumper"
  /\ PipelineRest
  /\ RunBRest
  /\ \E c \in Contents : files = [f \in Paths |-> IF f = DumpPath THEN File(c) ELSE NoFile]
  /\ passes = 0
  /\ lastCall = NoCall
  /\ ValidateRest

(* preprocessDump(dumpPath): createReadStream(dumpPath),                   *)
(* createWriteStream(tempPath), pipeline through the transform.  A         *)
(* rejected pipeline leaves what the write stream had written.             *)
DumperPreprocess ==
  /\ pc = "dumper"
  /\ passes < MaxPasses
  /\ passes' = passes + 1
  /\ \E dumpPath \in {f \in Paths : ProcessedPath(f) \in Paths /\ f # "dump.sql.processed.processed"} :
       LET tempPath == ProcessedPath(dumpPath)
           input == files[dumpPath]
       IN IF ~input.exists
          THEN /\ files' \in {files, [files EXCEPT ![tempPath] = File(<<>>)]}
               /\ lastCall' = [path |-> dumpPath, before |-> input, ok |-> FALSE]
          ELSE \E cut \in 0..Len(input.content) :
                 LET out == TransformDump(input.content, cut)
                 IN \/ /\ files' = [files EXCEPT ![tempPath] = File(out)]
                       /\ lastCall' = [path |-> dumpPath, before |-> input, ok |-> TRUE]
                    \/ /\ \E part \in Prefixes(out) :
                            files' = [files EXCEPT ![tempPath] = File(part)]
                       /\ lastCall' = [path |-> dumpPath, before |-> input, ok |-> FALSE]
  /\ UNCHANGED <<pc, pipelineVars, runBVars, validateVars, stampVars>>

NextDumper == DumperPreprocess

SpecDumper == InitDumper /\ [][NextDumper]_vars

(***************************************************************************)
(* Dumper.validateDump.  A line of the file is what the three tests of the *)
(* loop see of it: whether it includes 'CREATE TABLE', whether it includes *)
(* 'INSERT INTO', and its version header, if it has one.                   *)
(***************************************************************************)
Line(create, insert, header, ver) ==
  [create |-> create, insert |-> insert, header |-> header, ver |-> ver]

(* header: "none"; "nodigits", the header text not followed by a digit;    *)
(* "digits", followed by the digits of ver, a PostgreSQL major version.    *)
LineKinds ==
  { Line(FALSE, FALSE, "none", 0), Line(TRUE, FALSE, "none", 0),
    Line(FALSE, TRUE, "none", 0), Line(TRUE, TRUE, "none", 0),
    Line(FALSE, FALSE, "nodigits", 0),
    Line(FALSE, FALSE, "digits", 9), Line(FALSE, FALSE, "digits", 16) }

DumpLines == SeqsUpTo(LineKinds, MaxLines)

(* The truth value JavaScript gives pgVersion: null and 0 are false.       *)
Truthy(v) == v # Null /\ v # 0

(* Faulty variant: the loop reads the file to its end.                     *)
ScanNeverStops(v) == FALSE

(* if (hasTableDefinitions && hasData && pgVersion) break;                 *)
ScanStops(v) == v.hasTableDefinitions /\ v.hasData /\ Truthy(v.pgVersion)

(* The three tests of the loop body on one line.                           *)
Scanned(v, line) ==
  [v EXCEPT !.hasTableDefinitions = @ \/ line.create,
            !.hasData = @ \/ line.insert,
            !.pgVersion = IF line.header = "digits" THEN line.ver ELSE @]

InitValidate ==
  /\ pc = "validate"
  /\ PipelineRest
  /\ RunBRest
  /\ files = [f \in Paths |-> NoFile]
  /\ passes = 0
  /\ lastCall = NoCall
  /\ vLines \in DumpLines
  /\ vPos = 0
  /\ validation = NoValidation
  /\ now = 0
  /\ exported = <<>>
  /\ dumpsDir = {}

validateFrame == <<pipelineVars, runBVars, files, passes, lastCall, vLines, stampVars>>

(* One iteration of for await (const line of rl).                          *)
ValidateLine ==
  /\ pc = "validate"
  /\ vPos < Len(vLines)
  /\ vPos' = vPos + 1
  /\ validation' = Scanned(validation, vLines[vPos + 1])
  /\ pc' = IF ScanStops(validation') THEN "validate_end" ELSE "validate"
  /\ UNCHANGED validateFrame

(* After the loop: isValid is computed and the object returned.            *)
ValidateReturn ==
  /\ \/ pc = "validate_end"
     \/ pc = "validate" /\ vPos = Len(vLines)
  /\ validation' =
       [validation EXCEPT !.isValid =
          validation.hasTableDefinitions /\ validation.hasData
            /\ Truthy(validation.pgVersion)]
  /\ pc' = "validated"
  /\ UNCHANGED <<validateFrame, vPos>>

(* The read stream fails: the catch block logs and rethrows, nothing is    *)
(* returned.                                                               *)
ValidateThrows ==
  /\ pc = "validate"
  /\ pc' = "validate_failed"
  /\ UNCHANGED <<validateFrame, vPos, validation>>

NextValidate ==
  \/ ValidateLine
  \/ ValidateReturn
  \/ ValidateThrows

SpecValidate == InitValidate /\ [][NextValidate]_vars

(***************************************************************************)
(* createAnonymizedDump called more than once, by one service object or by *)
(* several runs that share the dumps directory.  The clock counts half     *)
(* seconds; a call takes time, so two calls never start at one instant.    *)
(***************************************************************************)
TicksPerSecond == 2

(* new Date().toISOString().slice(0, 19).replace(/[:]/g, '-'): the instant *)
(* cut after the seconds, the milliseconds dropped.                        *)
Timestamp(t) == t \div TicksPerSecond

(* path.join(this.dumpsDirectory, `${timestamp}_anonymized_${outputPath}   *)
(* .sql`)                                                                  *)
FinalPath(stamp, outputPath) == [stamp |-> stamp, name |-> outputPath]

OutputNames == {"Customers", "Orders"}

InitExports ==
  /\ pc = "exports"
  /\ PipelineRest
  /\ RunBRest
  /\ files = [f \in Paths |-> NoFile]
  /\ passes = 0
  /\ lastCall = NoCall
  /\ vLines = <<>>
  /\ vPos = 0
  /\ validation = NoValidation
  /\ now \in 0..1
  /\ exported = <<>>
  /\ dumpsDir = {}

exportsFrame == <<pc, pipelineVars, runBVars, files, passes, lastCall, validateVars>>

(* Time passes between two calls.                                          *)
Tick ==
  /\ pc = "exports"
  /\ now < MaxClock
  /\ now' = now + 1
  /\ UNCHANGED <<exportsFrame, exported, dumpsDir>>

(* One createAnonymizedDump(outputPath): pg_dump -f <final path> writes    *)
(* the file, replacing a file of that path; when the call throws, pg_dump  *)
(* may or may not have opened the file.                                    *)
CreateDump ==
  /\ pc = "exports"
  /\ Len(exported) < MaxExports
  /\ now < MaxClock
  /\ \E outputPath \in OutputNames, ok \in BOOLEAN, opened \in BOOLEAN :
       LET finalPath == FinalPath(Timestamp(now), outputPath)
           call == Len(exported) + 1
       IN /\ ok => opened
          /\ exported' = Append(exported, [name |-> outputPath, at |-> now,
                                            path |-> finalPath, ok |-> ok])
          /\ dumpsDir' = IF opened
                         THEN {f \in dumpsDir : f.path # finalPath}
                                \cup {[path |-> finalPath, by |-> call]}
                         ELSE dumpsDir
  /\ now' = now + 1
  /\ UNCHANGED exportsFrame

NextExports ==
  \/ Tick
  \/ CreateDump

SpecExports == InitExports /\ [][NextExports]_vars

(***************************************************************************)
(* A second run of the program, started while the first has its container: *)
(* the two provisioning awaits of its setup, on the same container name.   *)
(* The first run is taken from the return of its setup, with a rule file   *)
(* of one table; a second run that comes earlier meets the same            *)
(* provisioning code.                                                      *)
(***************************************************************************)
(* The run as a successful setup leaves it, ready to process rules.        *)
SetupReturned ==
  /\ pc = "rules_check"
  /\ exitCode = -1
  /\ anonService = TRUE
  /\ rules \in {rs \in RuleSets : Len(rs) = 1}
  /\ err = NoErr
  /\ raised = NoErr
  /\ failedStage = "none"
  /\ containers =
       [n \in ContainerNames |->
          IF n = ContainerName THEN [state |-> "running", owner |-> "run"] ELSE Absent]
  /\ pool = "open"
  /\ maxRetries = [n |-> DefaultMaxRetries, isString |-> FALSE]
  /\ attempt = 1
  /\ polls = 1
  /\ delays = 0
  /\ acceptedAt = 1
  /\ schema \in SUBSET SchemaTableNames
  /\ extInstalled = TRUE
  /\ maskedRoles = {"dump_anon"}
  /\ labels = {}
  /\ txLabels = {}
  /\ inTx = FALSE
  /\ exactTableName = "undefined"
  /\ queriedTable = "none"
  /\ i = 0
  /\ j = 0
  /\ bound = {}
  /\ committed = FALSE
  /\ txLog = <<>>
  /\ client = NoClient
  /\ exportStarted = FALSE
  /\ outFile = FALSE
  /\ leaked = {}
  /\ dumpExt = FALSE
  /\ processedFile = TRUE
  /\ importLog = [ran |-> TRUE,
                  failed |-> {k \in 1..Len(DumpStatements) : DumpStatements[k] \notin schema},
                  created |-> schema,
                  phases |-> RestorePhases(DumpPath)]
  /\ cleanupRet = "none"
  /\ cleanupErr = NoErr
  /\ cleanupLogged = NoErr
  /\ cleanupCalls = 0
  /\ cleanupDone = 0
  /\ hi = 0
  /\ inspects = 0
  /\ lastObs = NoObs
  /\ exitSeenAt = 0
  /\ hDelays = 0
  /\ stagesDone = <<"provisioning", "connectivity", "database", "import", "masking">>
  /\ DumperRest

InitTwoRuns == SetupReturned /\ RunBRest

runBFrame ==
  <<pc, mainVars, errVars, pool, dbVars, waitVars, ruleVars, exportVars, fileVars,
    cleanupVars, healthVars, stageVars, dumperVars>>

(* Faulty variant: a container another run created is left alone.          *)
ProvisionCleanOwned(cs, name, who) ==
  IF cs[name].owner = "run"
  THEN {[containers |-> cs, err |-> "E_in_use"]}
  ELSE ensureCleanContainer(cs, name)

(* setup: await this.dockerManager.ensureCleanContainer('dump_postgresql') *)
(* stop and remove by name, whoever created the container.                 *)
ProvisionClean(cs, name, who) == ensureCleanContainer(cs, name)

FirstRunHasContainer ==
  /\ \E p \in 1..Len(stagesDone) : stagesDone[p] = "provisioning"
  /\ pc # "exited"

RunBEnsureCleanContainer ==
  /\ pcB = "idle"
  /\ FirstRunHasContainer
  /\ \E r \in ProvisionClean(containers, ContainerName, "runB") :
       /\ containers' = r.containers
       /\ errB' = r.err
       /\ pcB' = IF r.err = NoErr THEN "b_create" ELSE "b_failed"
  /\ UNCHANGED <<runBFrame, callVars>>

RunBCreateAndStartContainer ==
  /\ pcB = "b_create"
  /\ \E r \in createAndStartContainerBy(containers, ContainerName, "runB") :
       /\ containers' = r.containers
       /\ errB' = r.err
       /\ pcB' = IF r.err = NoErr THEN "b_provisioned" ELSE "b_failed"
  /\ UNCHANGED <<runBFrame, callVars>>

NextTwoRuns ==
  \/ ProcessRulesEnter
  \/ ProcessRulesBegin
  \/ validateTable
  \/ applyMaskingRules
  \/ verifyMasking
  \/ ProcessRulesCommit
  \/ ProcessRulesCatch
  \/ MainAwaitProcessRules
  \/ ExportWriteScript
  \/ ExportStripMasking
  \/ ExportPgDump
  \/ MainAwaitExport
  \/ MainCatch
  \/ MainCatchExit
  \/ MainFinally
  \/ MainFinallyExit
  \/ CleanupPool
  \/ CleanupContainer
  \/ CleanupCatch
  \/ CleanupReturn
  \/ RunBEnsureCleanContainer
  \/ RunBCreateAndStartContainer

SpecTwoRuns == InitTwoRuns /\ [][NextTwoRuns]_vars

(***************************************************************************)
(* Two processRules calls on one service object, started together (as by   *)
(* Promise.all) once setup has returned: the first with the rules main     *)
(* loaded, the second with a rule set of its caller.  Each call has its    *)
(* own pooled client and transaction; this.exactTableName is the one field *)
(* of the object.  A step is what a call runs between two awaits.          *)
(***************************************************************************)
CallIds == {1, 2}

NewCall(rs) == [pc |-> "begin", j |-> 0, own |-> "undefined", rs |-> rs]

InitTwoCalls ==
  /\ SetupReturned
  /\ pcB = "idle"
  /\ errB = NoErr
  /\ \E rs \in {x \in RuleSets : Len(x) = 1} : calls = <<NewCall(rules), NewCall(rs)>>
  /\ callLog = <<>>

twoCallsFrame ==
  <<pc, mainVars, errVars, dockerVars, pool, dbVars, waitVars, queriedTable, i, j, bound,
    committed, txLog, client, exportVars, fileVars, cleanupVars, healthVars, stageVars, dumperVars,
    pcB, errB>>

(* A statement of call c on its client, with the name c resolved itself.   *)
Sent(c, kind, table) ==
  callLog' = Append(callLog, [call |-> c, kind |-> kind, table |-> table,
                              own |-> calls[c].own])

(* A rejected query: the catch block rolls back and the call rethrows.     *)
CallFails(c) ==
  /\ calls' = [calls EXCEPT ![c].pc = "failed"]
  /\ UNCHANGED exactTableName

(* client.query('BEGIN')                                                   *)
CallBegin(c) ==
  /\ calls[c].pc = "begin"
  /\ Sent(c, "BEGIN", "none")
  /\ \/ calls' = [calls EXCEPT ![c].pc = "validate"] /\ UNCHANGED exactTableName
     \/ CallFails(c)
  /\ UNCHANGED twoCallsFrame

(* validateTable of the one rule entry: the field is written when a row    *)
(* came back, the entry is skipped otherwise.                              *)
CallValidateTable(c) ==
  /\ calls[c].pc = "validate"
  /\ callLog' = Append(callLog, [call |-> c, kind |-> "resolve",
                                 table |-> calls[c].rs[1].table, own |-> calls[c].own])
  /\ \/ IF Matches(calls[c].rs[1].table) = {}
        THEN /\ calls' = [calls EXCEPT ![c].pc = "commit"]
             /\ UNCHANGED exactTableName
        ELSE \E s \in Matches(calls[c].rs[1].table) :
               /\ exactTableName' = s
               /\ calls' = [calls EXCEPT ![c].pc = AfterValidate(TRUE), ![c].j = 1,
                                         ![c].own = s]
     \/ CallFails(c)
  /\ UNCHANGED twoCallsFrame

(* One round of the loop of applyMaskingRules: the statement text is built *)
(* from this.exactTableName as it is now.                                  *)
CallApplyMaskingRules(c) ==
  /\ calls[c].pc = "rules_apply"
  /\ LET entries == MaskEntries(calls[c].rs[1])
         t == StatementTable(calls[c].rs[1].table, exactTableName)
     IN IF calls[c].j > Len(entries)
        THEN /\ calls' = [calls EXCEPT ![c].pc = "verify"]
             /\ UNCHANGED <<callLog, exactTableName>>
        ELSE /\ Sent(c, "bind", t)
             /\ \/ /\ t \in schema
                   /\ calls' = [calls EXCEPT ![c].j = @ + 1]
                   /\ UNCHANGED exactTableName
                \/ CallFails(c)
  /\ UNCHANGED twoCallsFrame

(* verifyMasking: the row count of "${this.exactTableName}".              *)
CallVerifyMasking(c) ==
  /\ calls[c].pc = "verify"
  /\ LET t == StatementTable(calls[c].rs[1].table, exactTableName)
     IN /\ Sent(c, "verify", t)
        /\ \/ /\ t \in schema
              /\ calls' = [calls EXCEPT ![c].pc = "commit"]
              /\ UNCHANGED exactTableName
           \/ CallFails(c)
  /\ UNCHANGED twoCallsFrame

(* client.query('COMMIT')                                                  *)
CallCommit(c) ==
  /\ calls[c].pc = "commit"
  /\ Sent(c, "COMMIT", "none")
  /\ \/ calls' = [calls EXCEPT ![c].pc = "returned"] /\ UNCHANGED exactTableName
     \/ CallFails(c)
  /\ UNCHANGED twoCallsFrame

(* catch: ROLLBACK, rethrow; finally: release.                             *)
CallCatch(c) ==
  /\ calls[c].pc = "failed"
  /\ Sent(c, "ROLLBACK", "none")
  /\ calls' = [calls EXCEPT ![c].pc = "raised"]
  /\ UNCHANGED <<twoCallsFrame, exactTableName>>

NextTwoCalls ==
  \E c \in CallIds :
    \/ CallBegin(c)
    \/ CallValidateTable(c)
    \/ CallApplyMaskingRules(c)
    \/ CallVerifyMasking(c)
    \/ CallCommit(c)
    \/ CallCatch(c)

SpecTwoCalls == InitTwoCalls /\ [][NextTwoCalls]_vars

(***************************************************************************)
(* Properties.                                                             *)
(***************************************************************************)
TypeOK ==
  /\ exitCode \in {-1, 0, 1}
  /\ pool \in {"null", "open", "ended"}
  /\ rules \in RuleSets
  /\ schema \subseteq SchemaTableNames
  /\ cleanupDone <= cleanupCalls

(* The columns of entry k of the rule set are all labelled, with their own *)
(* mask expression, on a schema table matching the entry's table name.     *)
AllBound(k) ==
  \E s \in Matches(rules[k].table) :
    \A x \in 1..Len(rules[k].masks) :
      [table |-> s, column |-> rules[k].masks[x].column,
       mask |-> rules[k].masks[x].mask] \in labels

ProcessRulesReturned == pc = "rules_end" /\ err = NoErr
ProcessRulesRaised == pc = "rules_end" /\ err # NoErr

(* C1: when a step of processRules fails (BEGIN, the table-resolution      *)
(* query, a column binding, the verification query, COMMIT), no label made *)
(* by the call is in the database afterwards, nothing was committed, and   *)
(* the call ends by raising.                                               *)
C1_RollbackOnFailure ==
  failedStage = "processRules" =>
    /\ ~committed
    /\ labels = {}
    /\ pc = "rules_end" => err # NoErr

(* C1 witness: the verification query failed after the columns of a table  *)
(* had been bound, and processRules has ended with no label left.          *)
C1_Witness ==
  /\ ProcessRulesRaised
  /\ raised = "E_verify_query"
  /\ \E k \in 1..Len(rules) :
       /\ rules[k].hasMasks
       /\ lower(rules[k].table) = lower(exactTableName)
  /\ labels = {}

(* C2: the final dump holds the original values of no column bound by      *)
(* processRules.                                                           *)
C2_DumpHasNoOriginalValues == outFile => leaked = {}

(* C3: createAnonymizedDump is entered only after processRules returned    *)
(* after its COMMIT; after a failure of an earlier stage it is never       *)
(* entered and no dump file exists.                                        *)
C3_ExportOnlyAfterCommit ==
  /\ exportStarted => committed
  /\ failedStage \in {"access", "loadRules", "setup", "processRules"} =>
       ~exportStarted /\ ~outFile

(* C3 witness: the export has written the dump of a run whose rule         *)
(* transaction committed bindings.                                         *)
C3_Witness == outFile /\ committed /\ bound # {}

C5_ContainerGoneAfterCleanup ==
  (pc = "exited" /\ cleanupDone >= 1) =>
    /\ containers[ContainerName].owner # "run"
    /\ pool # "open"

(* C6: cleanup() returns to its caller without an error, at every          *)
(* invocation and whatever failed inside it.                               *)
C6_CleanupNeverRaises == pc = "cleanup_return" => cleanupErr = NoErr

(* C6 witness: a second cleanup() has returned to the caller after         *)
(* pool.end() rejected on the pool the first one had closed.               *)
C6_Witness ==
  /\ pc = "caller"
  /\ cleanupDone = 2
  /\ pool = "ended"
  /\ cleanupLogged = "E_pool_ended_twice"

(* C7: the error main's catch receives, and the error setup rethrows, is   *)
(* the error the failing stage raised.                                     *)
C7_OriginalErrorSurfaces ==
  /\ pc = "main_catch" => err = raised /\ err # NoErr
  /\ (pc = "setup_end" /\ raised # NoErr) => err = raised
  /\ (pc = "rules_end" /\ raised # NoErr) => err = raised

(* C7 witness: setup failed, the cleanup() of its failure handling hit an  *)
(* error of its own, and main's catch holds the error of setup.            *)
C7_Witness ==
  /\ pc = "main_catch"
  /\ failedStage = "setup"
  /\ cleanupDone = 1
  /\ cleanupLogged # NoErr
  /\ err = raised

(* C8: the process exits with status 1 when a stage raised and with        *)
(* status 0 only when every stage succeeded.                               *)
C8_ExitStatus ==
  pc = "exited" =>
    /\ exitCode \in {0, 1}
    /\ exitCode = 0 <=> raised = NoErr
    /\ exitCode = 0 => committed /\ outFile /\ pool # "null"

(* C8 witness: the export failed, the cleanup() of main's catch hit an     *)
(* error of its own, and the process has exited with status 1.             *)
C8_Witness ==
  /\ pc = "exited"
  /\ exitCode = 1
  /\ failedStage = "createAnonymizedDump"
  /\ cleanupLogged # NoErr

(* C9: when processRules returns, every rule-set table found in the schema *)
(* has each column of its masks labelled with its mask expression, in      *)
(* committed labels.                                                       *)
C9_AllColumnsBound ==
  ProcessRulesReturned =>
    /\ committed
    /\ ~inTx
    /\ \A k \in 1..Len(rules) : Matches(rules[k].table) # {} => AllBound(k)

(* C9 witness: processRules has returned after binding two tables, one of  *)
(* them with at least two columns.                                         *)
C9_Witness ==
  /\ ProcessRulesReturned
  /\ \E k \in 1..Len(rules) : Matches(rules[k].table) # {} /\ Len(rules[k].masks) >= 2
  /\ Cardinality({l.table : l \in labels}) = 2

ProcessRulesFailures ==
  {"E_no_rules", "E_pool_connect", "E_begin", "E_validate_query",
   "E_security_label", "E_verify_query", "E_commit"}

(* C10: a rule-set table without a match raises nothing of its own (the    *)
(* only errors of processRules are those of its queries, of the pool and   *)
(* of the empty rule set), and a call that met such a table still commits  *)
(* the bindings of every table that has a match.                           *)
C10_MissingTableSkipped ==
  /\ failedStage = "processRules" => raised \in ProcessRulesFailures
  /\ (ProcessRulesReturned /\ \E k \in 1..Len(rules) : Matches(rules[k].table) = {}) =>
       /\ committed
       /\ \A k \in 1..Len(rules) : Matches(rules[k].table) # {} => AllBound(k)

(* C10 witness: the first table of the rule set has no match, the second   *)
(* has one, and processRules has returned with the second one bound.       *)
C10_Witness ==
  /\ ProcessRulesReturned
  /\ Len(rules) = 2
  /\ Matches(rules[1].table) = {}
  /\ Matches(rules[2].table) # {}
  /\ rules[2].hasMasks
  /\ bound # {}

(* C11: a rule's table name is matched against the schema without regard   *)
(* to case, and every SECURITY LABEL statement and the count query of the  *)
(* rule name the table as the schema stores it: the statements name a      *)
(* schema table equal to this.exactTableName, every label sits on a        *)
(* schema table, and a rule whose name differs from a schema table only in *)
(* case has its columns labelled on that table when processRules returns.  *)
C11_ExactTableNameUsed ==
  /\ queriedTable # "none" =>
       /\ queriedTable \in schema
       /\ queriedTable = exactTableName
  /\ pc \in {"rules_apply", "rules_verify"} =>
       /\ exactTableName \in schema
       /\ lower(exactTableName) = lower(rules[i].table)
  /\ \A l \in labels \cup txLabels : l.table \in schema
  /\ ProcessRulesReturned =>
       \A k \in 1..Len(rules) : \A s \in schema :
         (lower(s) = lower(rules[k].table) /\ Len(MaskEntries(rules[k])) > 0) =>
           \E l \in labels : l.table = s

(* C11 witness: the rule written Users has been bound and verified on the  *)
(* schema table users.                                                     *)
C11_Witness ==
  /\ pc = "rules_loop"
  /\ i = 2
  /\ rules[1].table = "Users"
  /\ queriedTable = "users"
  /\ \E l \in txLabels : l.table = "users"

(* C12: when the database accepts the N-th trial connection, N within      *)
(* maxRetries, waitForPostgres has made exactly N trial connections and    *)
(* N-1 delays, returns, and makes no trial connection afterwards.          *)
C12_ReadyAfterNAttempts ==
  acceptedAt # 0 =>
    /\ acceptedAt <= maxRetries.n
    /\ polls = acceptedAt
    /\ delays = acceptedAt - 1
    /\ pc # "setup_wait"
    /\ failedStage = "setup" => raised # "E_pg_connect"

(* C12 witness: the database rejected two trial connections and accepted   *)
(* the third, and setup has gone on to the database initialisation.        *)
C12_Witness ==
  /\ pc = "setup_initdb"
  /\ acceptedAt = 3
  /\ delays = 2

(* C13: waitForPostgres returns normally only when a trial connection was  *)
(* accepted; when none is, it raises after exactly maxRetries trial        *)
(* connections, so the database initialisation and the import never start  *)
(* against a database that accepted no connection.                         *)
C13_ExhaustionRaises ==
  /\ pc \in {"setup_initdb", "setup_import", "setup_psql"} => acceptedAt # 0
  /\ raised = "E_pg_connect" => polls = maxRetries.n /\ acceptedAt = 0

(* C14: once an inspect of waitForContainerHealth has reported a non-zero  *)
(* exit code, the wait has failed and no inspect was made after that one.  *)
C14_ExitCodeFailsAtOnce ==
  exitSeenAt # 0 =>
    /\ pc = "health_raised"
    /\ inspects = exitSeenAt

(* C15: waitForContainerHealth returns at the first inspect that shows the *)
(* container running and either healthy or without a health check, so      *)
(* while it waits no inspect has shown that; and it raises only after      *)
(* HealthMaxRetries inspects none of which showed it.                      *)
C15_HealthWaitOutcome ==
  LET ready == /\ ~lastObs.failed
               /\ lastObs.Running
               /\ lastObs.Health \in {"none", "healthy"}
  IN /\ pc = "health_returned" => ready /\ inspects <= HealthMaxRetries
     /\ (pc = "health_wait" /\ inspects > 0) => ~ready
     /\ pc = "health_raised" => ~ready /\ inspects = HealthMaxRetries

(* C15 witness: the third inspect showed the container running without a   *)
(* health check and the wait has returned.                                 *)
C15_Witness ==
  /\ pc = "health_returned"
  /\ inspects = 3
  /\ lastObs.Running
  /\ lastObs.Health = "none"

(* C16: the provisioning of setup leaves no pre-existing container behind, *)
(* whatever state it was in: the container is absent when the new one is   *)
(* created, the container the connectivity wait runs against is running    *)
(* and was created by this run, and a pre-existing container that is not   *)
(* running is never what makes the provisioning fail.                      *)
C16_FreshContainer ==
  /\ pc = "setup_create" => containers[ContainerName].state = "absent"
  /\ pc = "setup_wait" =>
       containers[ContainerName] = [state |-> "running", owner |-> "run"]
  /\ containers[ContainerName].owner = "earlier" => raised # "E_docker_304"

StageOrder ==
  <<"provisioning", "connectivity", "database", "import", "masking", "rules", "export">>

(* The place in StageOrder of the stage that the control point belongs to, *)
(* 0 outside the stages.                                                   *)
StageAt(p) ==
  CASE p \in {"setup_clean", "setup_create"} -> 1
    [] p = "setup_wait" -> 2
    [] p = "setup_initdb" -> 3
    [] p \in {"setup_import", "setup_psql"} -> 4
    [] p = "setup_anon" -> 5
    [] p \in {"rules_check", "rules_begin", "rules_loop", "rules_apply", "rules_verify"} -> 6
    [] p \in {"export_start", "export_strip", "export_dump"} -> 7
    [] OTHER -> 0

(* C17: the stages complete in the fixed order provisioning, connectivity  *)
(* wait, database preparation, import, masking setup, rule application,    *)
(* export; a stage runs only when all stages before it have completed and  *)
(* nothing has failed; the masking extension and role exist only after the *)
(* import completed, and labels are bound only after the masking setup     *)
(* completed.                                                              *)
C17_StageOrder ==
  /\ Len(stagesDone) <= Len(StageOrder)
  /\ stagesDone = SubSeq(StageOrder, 1, Len(stagesDone))
  /\ StageAt(pc) # 0 => Len(stagesDone) = StageAt(pc) - 1 /\ raised = NoErr
  /\ (extInstalled \/ maskedRoles # {}) => Len(stagesDone) >= 4
  /\ (inTx \/ txLabels # {} \/ labels # {}) => Len(stagesDone) >= 5
  /\ exportStarted => Len(stagesDone) >= 6
  /\ raised # NoErr => Len(stagesDone) < Len(StageOrder)

(* C17 witness: a run has exited with status 0, all seven stages completed *)
(* in order.                                                               *)
C17_Witness ==
  /\ pc = "exited"
  /\ exitCode = 0
  /\ stagesDone = StageOrder
  /\ bound # {}

(* C18: rules are applied, and a run exits with status 0, only after a     *)
(* readiness wait of the run saw the container healthy and a trial         *)
(* connection accepted.                                                    *)
C18_ReadyBeforeRules ==
  (StageAt(pc) = 6 \/ (pc = "exited" /\ exitCode = 0)) =>
    /\ acceptedAt # 0
    /\ inspects > 0
    /\ IsHealthy(lastObs)

(* C19: pg_dump runs only once every anon security label is deleted and    *)
(* the anon extension is dropped, never after a removal that failed, and   *)
(* the final dump has no statement that needs the extension.               *)
C19_StrippedBeforeDump ==
  /\ pc = "export_dump" => labels = {} /\ ~extInstalled
  /\ outFile => ~dumpExt

(* C20: the preprocessed copy <dump>.processed exists only while the       *)
(* import step is between its preprocessing and the end of its psql run;   *)
(* once the step has ended, with or without an error, the file is gone.    *)
C20_ProcessedCopyRemoved ==
  processedFile => pc = "setup_psql"

(* C21: the two settings rewrites change nothing in content they have      *)
(* already rewritten: rewriting a file's content twice gives what          *)
(* rewriting it once gives.                                                *)
C21_SettingsRewriteIdempotent ==
  \A f \in Paths :
    files[f].exists =>
      RewriteSettings(RewriteSettings(files[f].content, 0), 0)
        = RewriteSettings(files[f].content, 0)

(* C22: preprocessDump writes to a path other than its input and the file  *)
(* it read has the content it had before the call, whether the call        *)
(* succeeded or failed; after a success the output file exists.            *)
C22_OriginalUntouched ==
  lastCall # NoCall =>
    /\ ProcessedPath(lastCall.path) # lastCall.path
    /\ files[lastCall.path] = lastCall.before
    /\ lastCall.ok => files[ProcessedPath(lastCall.path)].exists

(* C22 witness: the dump was preprocessed, and the failing preprocessing of *)
(* the processed copy left a partial output; both inputs are as before.    *)
C22_Witness ==
  /\ passes = 2
  /\ lastCall.path = "dump.sql.processed"
  /\ ~lastCall.ok
  /\ files[DumpPath].content # <<>>
  /\ files["dump.sql.processed"] = lastCall.before
  /\ files["dump.sql.processed.processed"].exists

(* C23: a failing statement of the dump does not fail the import: psql     *)
(* goes on with the statements after it, the import ends normally, and     *)
(* importDump raises only when psql itself could not run.                  *)
C23_StatementErrorsTolerated ==
  /\ raised = "E_import" => ~importLog.ran
  /\ importLog.ran =>
       /\ importLog.created =
            {DumpStatements[k] : k \in (1..Len(DumpStatements)) \ importLog.failed}
       /\ \E p \in 1..Len(stagesDone) : stagesDone[p] = "import"

C23_Witness ==
  /\ importLog.ran
  /\ importLog.failed = {1}
  /\ importLog.created = {"orders"}
  /\ pc = "setup_anon"
  /\ raised = NoErr

(* C24: the import of a run is two restores, schema-only and then          *)
(* data-only.                                                              *)
C24_TwoPhaseImport ==
  (\E p \in 1..Len(stagesDone) : stagesDone[p] = "import") =>
    importLog.phases = <<"schema-only", "data-only">>

(* C25: a run that created the service object has invoked cleanup() at     *)
(* least once and at most twice when the process exits, the invocations of *)
(* setup's failure handler and of main's catch and finally blocks counted, *)
(* and every one of them has ended.                                        *)
C25_CleanupOnceOrTwice ==
  /\ anonService => cleanupCalls <= 2
  /\ (pc = "exited" /\ anonService) =>
       /\ cleanupCalls \in 1..2
       /\ cleanupDone = cleanupCalls

C25_Witness ==
  /\ pc = "exited"
  /\ anonService
  /\ failedStage = "setup"
  /\ exitCode = 1
  /\ cleanupCalls = 2

(* The lines 1..n of the file show all three signals.                      *)
AllSignalsBy(n) ==
  /\ \E m \in 1..n : vLines[m].create
  /\ \E m \in 1..n : vLines[m].insert
  /\ \E m \in 1..n : vLines[m].header = "digits"

(* The first line at which all three signals have been seen, the last line *)
(* of the file when there is none.                                         *)
StopLine ==
  IF AllSignalsBy(Len(vLines))
  THEN CHOOSE n \in 1..Len(vLines) :
         AllSignalsBy(n) /\ \A m \in 1..(n - 1) : ~AllSignalsBy(m)
  ELSE Len(vLines)

(* C26: validateDump returns isValid exactly when it found a table         *)
(* definition line, a data line and a version header; it has read the      *)
(* file up to the first line at which all three were seen, and every flag  *)
(* it returns is that of the lines up to there.                            *)
C26_ValidReflectsLinesRead ==
  pc = "validated" =>
    /\ vPos = StopLine
    /\ validation.hasTableDefinitions = (\E m \in 1..StopLine : vLines[m].create)
    /\ validation.hasData = (\E m \in 1..StopLine : vLines[m].insert)
    /\ (validation.pgVersion # Null) = (\E m \in 1..StopLine : vLines[m].header = "digits")
    /\ \A m \in 1..StopLine :
         (vLines[m].header = "digits" /\ \A x \in (m + 1)..StopLine : vLines[x].header # "digits")
           => validation.pgVersion = vLines[m].ver
    /\ validation.isValid =
         (validation.hasTableDefinitions /\ validation.hasData /\ validation.pgVersion # Null)
    /\ validation.isValid = AllSignalsBy(Len(vLines))

C26_Witness ==
  /\ pc = "validated"
  /\ validation.isValid
  /\ vPos < Len(vLines)
  /\ vLines[Len(vLines)].header = "digits"
  /\ vLines[Len(vLines)].ver # validation.pgVersion

(* C27: two exports with the same requested name never have the same path, *)
(* and the file of an earlier export is still the one it wrote.            *)
C27_ExportPathsDistinct ==
  \A a, b \in 1..Len(exported) :
    (a < b /\ exported[a].name = exported[b].name) =>
      /\ exported[a].path # exported[b].path
      /\ exported[a].ok => [path |-> exported[a].path, by |-> a] \in dumpsDir

(* C28: in waitForPostgres and in waitForContainerHealth every poll but    *)
(* the first comes after a timed delay of its own: the delays waited are   *)
(* never fewer than the polls made less one.                               *)
C28_DelayBetweenPolls ==
  /\ delays >= polls - 1
  /\ hDelays >= inspects - 1

Terminators == {"COMMIT", "ROLLBACK"}
WorkKinds == {"resolve", "bind", "verify"}

(* The place of a statement in the iteration: rule entry, then resolution, *)
(* bindings in the order of the masks, verification.                       *)
KindRank(kind) ==
  CASE kind = "resolve" -> 1 [] kind = "bind" -> 2 [] kind = "verify" -> 3 [] OTHER -> 0

Before(a, b) ==
  \/ a.rule < b.rule
  \/ a.rule = b.rule /\ KindRank(a.kind) < KindRank(b.kind)
  \/ a.rule = b.rule /\ a.kind = "bind" /\ b.kind = "bind" /\ a.col < b.col

(* The statements of the log of the given kinds, as a set of places.       *)
PlacesOf(kinds) == {k \in 1..Len(txLog) : txLog[k].kind \in kinds}

(* One BEGIN, first in the log and alone of its kind; all statements on    *)
(* one connection; resolutions, bindings and verifications in iteration    *)
(* order, every one before every terminator.                               *)
InsideOneBracket ==
  txLog # <<>> =>
    /\ PlacesOf({"BEGIN"}) = {1}
    /\ \A k \in 1..Len(txLog) : txLog[k].on = txLog[1].on
    /\ \A a \in PlacesOf(WorkKinds), b \in PlacesOf(Terminators) : a < b
    /\ \A a, b \in PlacesOf(WorkKinds) : a < b => Before(txLog[a], txLog[b])

(* C29 (as stated): the statements of one processRules call lie, one at a  *)
(* time and in iteration order, on one connection between exactly one      *)
(* BEGIN and exactly one COMMIT or ROLLBACK.                               *)
C29_ExactlyOneTerminator ==
  /\ InsideOneBracket
  /\ Cardinality(PlacesOf(Terminators)) <= 1
  /\ (pc = "rules_end" /\ txLog # <<>>) => Cardinality(PlacesOf(Terminators)) = 1

(* C29 (amended): the statements of one processRules call lie, one at a    *)
(* time and in iteration order, on one connection after exactly one BEGIN  *)
(* and before the first terminator; the call ends with one COMMIT when it  *)
(* returns, with one ROLLBACK when it raises, the ROLLBACK coming after    *)
(* the COMMIT when it was the COMMIT that failed.                          *)
C29_BracketWithRollbackAfterFailedCommit ==
  /\ InsideOneBracket
  /\ Cardinality(PlacesOf({"COMMIT"})) <= 1
  /\ Cardinality(PlacesOf({"ROLLBACK"})) <= 1
  /\ \A a \in PlacesOf({"COMMIT"}), b \in PlacesOf({"ROLLBACK"}) :
       a < b /\ raised = "E_commit"
  /\ (pc = "rules_end" /\ txLog # <<>>) =>
       /\ txLog[Len(txLog)].kind \in Terminators
       /\ (err = NoErr) = (PlacesOf({"ROLLBACK"}) = {})

C29_Witness ==
  /\ pc = "rules_end"
  /\ Len(rules) = 2
  /\ PlacesOf({"bind"}) # {}
  /\ PlacesOf({"verify"}) # {}
  /\ PlacesOf({"COMMIT"}) # {}
  /\ PlacesOf({"ROLLBACK"}) # {}

(* C30: nothing keeps the provisioning of a second run from taking the     *)
(* container of a first run that is still using it: the second run's       *)
(* ensureCleanContainer fails only when the daemon fails, never because    *)
(* the container is in use; when it has returned the container is gone,    *)
(* wherever the first run is, and the container the second run then        *)
(* starts is its own.                                                      *)
C30_SecondRunTakesContainer ==
  /\ errB \in {NoErr, "E_docker_500", "E_docker_304"}
  /\ pcB = "b_create" => containers[ContainerName].state = "absent"
  /\ pcB = "b_provisioned" => containers[ContainerName].owner = "runB"

C30_Witness ==
  /\ pcB = "b_create"
  /\ containers[ContainerName].state = "absent"
  /\ pc = "rules_apply"
  /\ pool = "open"
  /\ inTx
  /\ ~exportStarted
  /\ ~outFile

(* C31: when every collaborator call returns, every run terminates: the    *)
(* process reaches its exit, after at least one completed cleanup() when   *)
(* the service object exists, with no more polls than the retry limit      *)
(* allows and no more statements than one pass over the rule set issues.   *)
C31_EveryRunTerminates ==
  <>(/\ pc = "exited"
     /\ exitCode \in {0, 1}
     /\ anonService => cleanupDone >= 1
     /\ polls <= maxRetries.n
     /\ Cardinality({k \in 1..Len(txLog) : txLog[k].kind = "resolve"}) <= Len(rules))

C31_Witness ==
  /\ pc = "exited"
  /\ exitCode = 0
  /\ delays >= 1
  /\ Len(rules) = 2
  /\ committed
  /\ cleanupDone = 1

(* The single quotes in a piece of text: one in a quote, four in a         *)
(* search_path statement, doubled by every escaping it went through.       *)
QuotesIn(piece) ==
  CASE piece.k = "quote" -> 1
    [] piece.k \in {"sp_empty", "sp_public"} -> 4 * (2 ^ piece.q)
    [] OTHER -> 0

RECURSIVE Quotes(_)
Quotes(c) == IF c = <<>> THEN 0 ELSE QuotesIn(c[1]) + Quotes(Tail(c))

(* C32: the quote escaping doubles every single quote and is not           *)
(* idempotent: content with k quotes has 2k after one pass and 4k after    *)
(* two, and a completed preprocessDump writes twice the quotes it read.    *)
C32_QuoteEscapingDoubles ==
  /\ \A f \in Paths :
       files[f].exists =>
         LET c == files[f].content
             once == EscapeAllQuotes(c)
             twice == EscapeAllQuotes(once)
         IN /\ Quotes(once) = 2 * Quotes(c)
            /\ Quotes(twice) = 4 * Quotes(c)
            /\ Quotes(c) > 0 => twice # once
  /\ (lastCall # NoCall /\ lastCall.ok) =>
       Quotes(files[ProcessedPath(lastCall.path)].content)
         = 2 * Quotes(lastCall.before.content)

C32_Witness ==
  /\ passes = 2
  /\ lastCall.ok
  /\ lastCall.path = "dump.sql.processed"
  /\ Quotes(files[DumpPath].content) = 1
  /\ Quotes(files["dump.sql.processed"].content) = 2
  /\ Quotes(files["dump.sql.processed.processed"].content) = 4

(* C33: the file a completed preprocessDump wrote is the rewrite of the    *)
(* whole input, however the read stream cut the input into chunks.         *)
C33_ChunkingIndependent ==
  (lastCall # NoCall /\ lastCall.ok) =>
    files[ProcessedPath(lastCall.path)].content = TransformDump(lastCall.before.content, 0)

(* C34: every binding and verification of a processRules call names the    *)
(* table that was resolved for its own rule entry in that iteration: a     *)
(* schema table matching the entry's name, found by a resolution issued    *)
(* for that entry; an entry whose table is absent has no binding and no    *)
(* verification.                                                           *)
C34_OwnResolutionUsed ==
  \A k \in 1..Len(txLog) :
    txLog[k].kind \in {"bind", "verify"} =>
      /\ txLog[k].table \in Matches(rules[txLog[k].rule].table)
      /\ \E r \in 1..(k - 1) :
           /\ txLog[r].kind = "resolve"
           /\ txLog[r].rule = txLog[k].rule
           /\ \A x \in (r + 1)..(k - 1) : txLog[x].kind # "resolve"

C34_Witness ==
  /\ pc = "rules_end"
  /\ committed
  /\ Len(rules) = 2
  /\ Matches(rules[1].table) # {}
  /\ Matches(rules[2].table) = {}
  /\ \E k \in 1..Len(txLog) : txLog[k].kind = "bind" /\ txLog[k].rule = 1
  /\ \E k \in 1..Len(txLog) : txLog[k].kind = "resolve" /\ txLog[k].rule = 2

(* C35: with two processRules calls interleaved on one service object,     *)
(* every binding and verification of a call names the table that call      *)
(* resolved itself.                                                        *)
C35_CallsUseOwnResolution ==
  \A k \in 1..Len(callLog) :
    callLog[k].kind \in {"bind", "verify"} => callLog[k].table = callLog[k].own

(* The control points of processRules at which it holds its client.        *)
HoldingClient ==
  pc \in {"rules_begin", "rules_loop", "rules_apply", "rules_verify", "rules_catch"}

(* C36: the pooled client processRules acquired is released exactly once   *)
(* on every path out of the call: held and not yet released inside the     *)
(* call, released once when the call has returned or raised, also when the *)
(* ROLLBACK failed; a call that got no client releases none.               *)
C36_ClientReleasedOnce ==
  /\ client.acquired <= 1
  /\ HoldingClient => client = [acquired |-> 1, released |-> 0]
  /\ ~HoldingClient => client.released = client.acquired

C36_Witness ==
  /\ pc = "rules_end"
  /\ raised = "E_security_label"
  /\ inTx
  /\ client = [acquired |-> 1, released |-> 1]

(* C37: processRules called with no rules raises before it takes a client  *)
(* or sends a statement, the labels of the database stay as they were, and *)
(* the run ends with status 1 and no export; a call that went past the     *)
(* check has rules.                                                        *)
C37_NoRulesRaisesFirst ==
  /\ (HoldingClient \/ txLog # <<>>) => Len(rules) > 0
  /\ raised = "E_no_rules" =>
       /\ Len(rules) = 0
       /\ client = NoClient
       /\ txLog = <<>>
       /\ ~inTx /\ ~committed
       /\ labels = {} /\ txLabels = {}
       /\ ~exportStarted /\ ~outFile
       /\ exitCode \in {-1, 1}
  /\ (Len(rules) = 0 /\ pc = "rules_end") => raised = "E_no_rules"

C37_Witness ==
  /\ pc = "exited"
  /\ raised = "E_no_rules"
  /\ failedStage = "processRules"
  /\ exitCode = 1
  /\ cleanupDone = 1
  /\ ~outFile

(* C38: in cleanup(), a pool that fails to close does not prevent the      *)
(* teardown of the container: whatever pool.end() did, also on an          *)
(* invocation that finds the pool already ended, the same invocation goes  *)
(* on to stop and remove the container.                                    *)
C38_TeardownAfterPoolFailure ==
  [][pc = "cleanup_pool" => pc' = "cleanup_container"]_vars

====
